---- MODULE Spec2Model ----
(***************************************************************************)
(* A model of the 3D render pipeline of astrbot_plugin_litematic:          *)
(* voxel model construction, surface extraction (greedy cube merging and   *)
(* per-element model emission), the render job with its render context     *)
(* and temporary files, the command-layer validation and the camera paths. *)
(*                                                                         *)
(* Representation choices (Python floats have no TLA+ counterpart):        *)
(*   - world vertices are held in sixteenths of a block (Unit = 16), so    *)
(*     model-element corners (v / 16.0 + position) stay integral;          *)
(*   - a normalised UV coordinate u / 16.0 is the rational [n, d];         *)
(*   - angles are held in steps of 7.5 degrees and sines/cosines in        *)
(*     thousandths (see the camera section).                               *)
(***************************************************************************)
EXTENDS Integers, Sequences, FiniteSets, TLC

VARIABLES
    \* the surface pipeline
    schematic,   \* the decoded structure handed to ModelBuilder: position -> block
    blocks,      \* ModelBuilder.blocks / SurfaceBuilder.blocks: position -> block data
    bounds,      \* ModelBuilder.min_x .. max_z
    surfaces,    \* the list returned by SurfaceBuilder.build_surfaces
    spc,         \* position of the surface pipeline: "loaded", "model", "surfaces", "mesh"
    mesh,        \* what create_mesh returned and the batches it left in the renderer
    \* the render job (Render3DManager and the command that calls it)
    req,         \* the arguments of the job
    jpc,         \* position of the job
    window_size, \* the local window_size of the manager: << >> is None
    plotter,     \* PyVistaRenderer.plotter: "None" or "open"
    contexts,    \* render contexts created and not closed so far
    gen,         \* the streaming frame generator: "none", "suspended", "finished"
    frame_i,     \* frames produced so far by the running pass
    files,       \* the files on disk: path -> [frames, complete]
    report,      \* what the last export operation reported: [op, ok, path]
    result,      \* how the manager call ended: [kind, path, type, code]
    attempted,   \* the stages the job has entered
    failures,    \* the failures the job has met
    \* Render3DCommand.execute up to the call of the manager
    creq,        \* the arguments of the command
    cpc,         \* position of the command
    reply,       \* the message the command answered with
    call,        \* the arguments the manager was called with
    lookups,     \* calls of file_manager.get_litematic_file_async
    \* one frame iterator of AnimationGenerator
    cam_in,      \* its arguments and the bounds of the model
    cam_pc,      \* "idle", "running", "exhausted"
    cam_i,       \* the loop index i
    poses,       \* the camera poses handed to render_scene so far
    \* one helper function called on its own
    fn_args,     \* the arguments of the first call
    fn_ret,      \* the value the last call returned
    fn_log,      \* the calls made so far
    fn_pc,       \* "idle", "called", "returned"
    \* two render jobs running on worker threads
    heap,        \* the objects constructed so far, an object's id is its index
    job_args,    \* per job: the arguments of render_litematic_3d_async
    job_pc,      \* per job: its position in render_litematic_3d
    job_locals,  \* per job: the objects its local variables refer to
    job_out,     \* per job: what each frame it produced shows
    accesses,    \* <<job, operation, object>> for every use of an object
    \* one PyVistaRenderer and the calls made on it
    r_sampler,   \* whether the renderer was constructed with a resource directory
    r_config,    \* PyVistaRenderer.config: camera_position, background_color, window_size
    r_plotter,   \* PyVistaRenderer.plotter: the id of a render context or NoObject
    r_key,       \* _plotter_window_size and _plotter_background, << >> when both are None
    r_contexts,  \* the render contexts created so far, a context's id is its index
    r_calls,     \* the calls of render_scene and close made so far
    \* one streaming export: a frame iterator and the encoder that pulls from it
    st_in,       \* n_frames of the iterator, resize_to and the encoder in use
    st_pc,       \* where control is: in the encoder, in the iterator, finished
    st_i,        \* the loop index of the iterator
    st_held,     \* frames rendered and not yet appended by the encoder
    st_written   \* the frames the encoder has appended, in order

surfaceVars == <<schematic, blocks, bounds, surfaces, spc, mesh>>

jobVars == <<req, jpc, window_size, plotter, contexts, gen, frame_i, files, report,
             result, attempted, failures>>

cmdVars == <<creq, cpc, reply, call, lookups>>

camVars == <<cam_in, cam_pc, cam_i, poses>>

fnVars == <<fn_args, fn_ret, fn_log, fn_pc>>

conVars == <<heap, job_args, job_pc, job_locals, job_out, accesses>>

rndVars == <<r_sampler, r_config, r_plotter, r_key, r_contexts, r_calls>>

strVars == <<st_in, st_pc, st_i, st_held, st_written>>

vars == <<surfaceVars, jobVars, cmdVars, camVars, fnVars, conVars, rndVars, strVars>>

-----------------------------------------------------------------------------
(* Bounds of the voxel world *)

BoxX == 2
MaxBlocks == 3

Inf == 1000000
NegInf == 0 - Inf

Unit == 16

\* The region is a slab of BoxX x 2 x 2 positions.
Positions == (0 .. BoxX - 1) \X (0 .. 1) \X (0 .. 1)

None == "None"

\* a renderer on which create_mesh has not run: mesh is None, textured_meshes is []
NoMesh == [ ok |-> FALSE, textured |-> << >>, colored |-> << >> ]

\* a job that was never started
NoReq ==
    [ kind |-> None, animation_type |-> None, frames |-> 0, window_size |-> << >>,
      native_textures |-> FALSE, native_max_size |-> << >> ]

NoReport == [ op |-> None, ok |-> TRUE, path |-> None ]

NoResult == [ kind |-> None, path |-> None, type |-> None, code |-> -1 ]

NoFiles == [ p \in {} |-> [ frames |-> 0, complete |-> FALSE ] ]

JobIdle ==
    /\ req = NoReq
    /\ jpc = "idle"
    /\ window_size = << >>
    /\ plotter = None
    /\ contexts = 0
    /\ gen = "none"
    /\ frame_i = 0
    /\ files = NoFiles
    /\ report = NoReport
    /\ result = NoResult
    /\ attempted = {}
    /\ failures = {}

NoCall == << >>

CmdIdle ==
    /\ creq = << >>
    /\ cpc = "idle"
    /\ reply = None
    /\ call = NoCall
    /\ lookups = 0

CamIdle ==
    /\ cam_in = << >>
    /\ cam_pc = "idle"
    /\ cam_i = 0
    /\ poses = << >>

Jobs == {1, 2}

\* no job has been dispatched and nothing has been constructed
ConIdle ==
    /\ heap = << >>
    /\ job_args = [ j \in Jobs |-> << >> ]
    /\ job_pc = [ j \in Jobs |-> "idle" ]
    /\ job_locals = [ j \in Jobs |-> << >> ]
    /\ job_out = [ j \in Jobs |-> << >> ]
    /\ accesses = {}

\* "no object" (Python None where a reference is expected)
NoObject == 0

\* PyVistaRenderer.config as __init__ leaves it.  The camera position 'iso'
\* is held as << >> and a pose p as << p >>; the window size [800, 600] as
\* <<800, 600>>, the background (0.95, 0.95, 0.95) as "light".
DefaultConfig ==
    [ camera_position |-> << >>, background_color |-> "light", window_size |-> <<800, 600>> ]

\* a renderer constructed with the resource directory and not used yet
RndIdle ==
    /\ r_sampler = TRUE
    /\ r_config = DefaultConfig
    /\ r_plotter = NoObject
    /\ r_key = << >>
    /\ r_contexts = << >>
    /\ r_calls = << >>

\* no streaming export is running
StrIdle ==
    /\ st_in = << >>
    /\ st_pc = "idle"
    /\ st_i = 0
    /\ st_held = << >>
    /\ st_written = << >>

FnIdle ==
    /\ fn_args = << >>
    /\ fn_ret = << >>
    /\ fn_log = << >>
    /\ fn_pc = "idle"

-----------------------------------------------------------------------------
(* Blocks: an id is <<namespace, name>>; properties map a name to a value  *)
(* or to None when the property is absent from the dict.                   *)

PropKeys == {"facing", "power", "north", "south", "east", "west"}

NoProps == [k \in PropKeys |-> None]

Block(ns, name, props) == [id |-> <<ns, name>>, properties |-> props]

AirBlock == Block("minecraft", "air", NoProps)

\* The non-air blocks the decoder may deliver in this model.
BlockChoices ==
    { Block("minecraft", "grass_block", NoProps),
      Block("minecraft", "andesite", NoProps),
      Block("minecraft", "hopper", [NoProps EXCEPT !["facing"] = "down"]) }

\* block_id.split(":")[-1]
BlockName(block_id) == block_id[Len(block_id)]

\* properties.get(key, default)
PropGet(properties, key, default) ==
    IF properties[key] = None THEN default ELSE properties[key]

-----------------------------------------------------------------------------
(* ModelBuilder *)

Min(a, b) == IF a <= b THEN a ELSE b
Max(a, b) == IF a >= b THEN a ELSE b

RECURSIVE SetMin(_)
SetMin(S) ==
    IF S = {} THEN Inf
    ELSE LET x == CHOOSE y \in S : TRUE IN Min(x, SetMin(S \ {x}))

RECURSIVE SetMax(_)
SetMax(S) ==
    IF S = {} THEN NegInf
    ELSE LET x == CHOOSE y \in S : TRUE IN Max(x, SetMax(S \ {x}))

\* The positions build_from_litematic keeps: block is not None and not air.
NonAir(sch) == { p \in DOMAIN sch : sch[p].id # <<"minecraft", "air">> }

\* self.blocks after the loop of build_from_litematic.
BuiltBlocks(sch) ==
    [ p \in NonAir(sch) |->
        [id |-> sch[p].id, properties |-> sch[p].properties, position |-> p] ]

\* min_x .. max_z after the loop: they start at +inf / -inf and fold min / max.
BuiltBounds(sch) ==
    [ min_x |-> SetMin({ p[1] : p \in NonAir(sch) }),
      max_x |-> SetMax({ p[1] : p \in NonAir(sch) }),
      min_y |-> SetMin({ p[2] : p \in NonAir(sch) }),
      max_y |-> SetMax({ p[2] : p \in NonAir(sch) }),
      min_z |-> SetMin({ p[3] : p \in NonAir(sch) }),
      max_z |-> SetMax({ p[3] : p \in NonAir(sch) }) ]

EmptyBlocks == [ p \in {} |-> AirBlock ]

ZeroBounds ==
    [ min_x |-> 0, max_x |-> 0, min_y |-> 0, max_y |-> 0, min_z |-> 0, max_z |-> 0 ]

-----------------------------------------------------------------------------
(* TextureSampler: block textures.  A texture name block_suffix is held as *)
(* <<block, suffix>>, the bare block name as <<block, "">>.                *)

\* texture_manager.available_textures of the resource tree used here:
\* grass_block_top.png, hopper_outside.png, hopper_top.png.  A grass block
\* has a top texture only and andesite has none, so their side and bottom
\* faces share the shaded default colour as material key.
AvailableTextures ==
    { <<"grass_block", "top">>, <<"hopper_outside", "">>, <<"hopper_top", "">> }

\* the candidate list of resolve_block_texture_name
TextureCandidates(block_name, face) ==
    <<  <<block_name, face>> >>
    \o (CASE face = "side"   -> << <<block_name, "all">> >>
          [] face = "front"  -> << <<block_name, "front">>, <<block_name, "side">> >>
          [] face = "bottom" -> << <<block_name, "bottom">>, <<block_name, "down">> >>
          [] face = "top"    -> << <<block_name, "top">>, <<block_name, "up">> >>
          [] OTHER           -> << >>)
    \o << <<block_name, "">> >>

\* "no texture name" (Python None where a name is expected)
NoTexture == << >>

RECURSIVE FirstAvailable(_, _)
FirstAvailable(candidates, i) ==
    IF i > Len(candidates) THEN NoTexture
    ELSE IF candidates[i] \in AvailableTextures THEN candidates[i]
    ELSE FirstAvailable(candidates, i + 1)

resolve_block_texture_name(block_name, face) ==
    FirstAvailable(TextureCandidates(block_name, face), 1)

\* texture_manager.default_texture is a flat (128,128,128,255) image and
\* _average_color of it is (128,128,128)
DefaultColor == <<128, 128, 128>>

\* Reached only when no candidate texture exists, so the texture sampled is
\* the default texture (both in native and in resampled mode).
sample_block_face_color(block_name, face) == DefaultColor

-----------------------------------------------------------------------------
(* SurfaceBuilder: tables *)

FACE_DIRS ==
    [ north |-> <<0, 0, -1>>, south |-> <<0, 0, 1>>, east |-> <<1, 0, 0>>,
      west |-> <<-1, 0, 0>>, up |-> <<0, 1, 0>>, down |-> <<0, -1, 0>> ]

CUBE_FACE_DIRS ==
    [ top |-> <<0, 1, 0>>, bottom |-> <<0, -1, 0>>, north |-> <<0, 0, -1>>,
      south |-> <<0, 0, 1>>, east |-> <<1, 0, 0>>, west |-> <<-1, 0, 0>> ]

CubeFaceOrder == << "top", "bottom", "north", "south", "east", "west" >>

\* FACE_SHADE in tenths
FACE_SHADE10 ==
    [ up |-> 12, down |-> 7, north |-> 9, south |-> 9, east |-> 8, west |-> 8,
      top |-> 12, bottom |-> 7 ]

\* min(255, int(c * factor)) per channel
_apply_shading(color, face_name) ==
    LET f == IF face_name \in DOMAIN FACE_SHADE10 THEN FACE_SHADE10[face_name] ELSE 10
    IN  << Min(255, (color[1] * f) \div 10),
           Min(255, (color[2] * f) \div 10),
           Min(255, (color[3] * f) \div 10) >>

_map_cube_face(face_name) ==
    IF face_name = "top" THEN "top"
    ELSE IF face_name = "bottom" THEN "bottom"
    ELSE "side"

\* The cache of _get_cube_face_key is keyed by (block_id, face_name) and holds
\* exactly the value computed here, so the cached and the computed key agree.
_get_cube_face_key(block_id, face_name) ==
    LET block_name   == BlockName(block_id)
        texture_face == _map_cube_face(face_name)
        texture_name == resolve_block_texture_name(block_name, texture_face)
    IN  IF texture_name # NoTexture
        THEN <<"tex", texture_name>>
        ELSE <<"color",
               _apply_shading(sample_block_face_color(block_name, texture_face), face_name)>>

Add3(p, d) == << p[1] + d[1], p[2] + d[2], p[3] + d[3] >>

-----------------------------------------------------------------------------
(* SurfaceBuilder: face geometry and UVs *)

_get_face_vertices(face_name, from_coords, to_coords) ==
    LET x1 == from_coords[1]  y1 == from_coords[2]  z1 == from_coords[3]
        x2 == to_coords[1]    y2 == to_coords[2]    z2 == to_coords[3]
    IN  CASE face_name = "north" -> << <<x1, y1, z1>>, <<x2, y1, z1>>, <<x2, y2, z1>>, <<x1, y2, z1>> >>
          [] face_name = "south" -> << <<x1, y1, z2>>, <<x1, y2, z2>>, <<x2, y2, z2>>, <<x2, y1, z2>> >>
          [] face_name = "east"  -> << <<x2, y1, z1>>, <<x2, y1, z2>>, <<x2, y2, z2>>, <<x2, y2, z1>> >>
          [] face_name = "west"  -> << <<x1, y1, z1>>, <<x1, y2, z1>>, <<x1, y2, z2>>, <<x1, y1, z2>> >>
          [] face_name = "up"    -> << <<x1, y2, z1>>, <<x2, y2, z1>>, <<x2, y2, z2>>, <<x1, y2, z2>> >>
          [] face_name = "down"  -> << <<x1, y1, z1>>, <<x1, y1, z2>>, <<x2, y1, z2>>, <<x2, y1, z1>> >>
          [] OTHER               -> << <<x1, y1, z1>>, <<x2, y1, z1>>, <<x2, y2, z1>>, <<x1, y2, z1>> >>

\* a / b if b else 0.0; every vertex handed in is a corner of the cuboid, so
\* the quotient is 0 or 1 and the integer division is exact
Factor(a, b) == IF b # 0 THEN a \div b ELSE 0

_get_vertex_uvs(face_name, vertices, from_coords, to_coords, uv_rect) ==
    LET x1 == from_coords[1]  y1 == from_coords[2]  z1 == from_coords[3]
        x2 == to_coords[1]    y2 == to_coords[2]    z2 == to_coords[3]
        u1 == uv_rect[1]  v1 == uv_rect[2]  u2 == uv_rect[3]  v2 == uv_rect[4]
        dx == x2 - x1
        dy == y2 - y1
        dz == z2 - z1
        u_factor(v) ==
            CASE face_name = "north" -> Factor(v[1] - x1, dx)
              [] face_name = "south" -> Factor(x2 - v[1], dx)
              [] face_name = "east"  -> Factor(v[3] - z1, dz)
              [] face_name = "west"  -> Factor(z2 - v[3], dz)
              [] face_name = "up"    -> Factor(v[1] - x1, dx)
              [] face_name = "down"  -> Factor(v[1] - x1, dx)
              [] OTHER               -> Factor(v[1] - x1, dx)
        v_factor(v) ==
            CASE face_name = "north" -> Factor(y2 - v[2], dy)
              [] face_name = "south" -> Factor(y2 - v[2], dy)
              [] face_name = "east"  -> Factor(y2 - v[2], dy)
              [] face_name = "west"  -> Factor(y2 - v[2], dy)
              [] face_name = "up"    -> Factor(v[3] - z1, dz)
              [] face_name = "down"  -> Factor(z2 - v[3], dz)
              [] OTHER               -> Factor(y2 - v[2], dy)
    IN  [ i \in 1 .. Len(vertices) |->
            << u1 + u_factor(vertices[i]) * (u2 - u1),
               v1 + v_factor(vertices[i]) * (v2 - v1) >> ]

\* (u / 16.0, v / 16.0): each coordinate becomes the rational n / d
NormalizeBy16(uvs) ==
    [ i \in 1 .. Len(uvs) |->
        << [n |-> uvs[i][1], d |-> 16], [n |-> uvs[i][2], d |-> 16] >> ]

\* a normalisation by a wrong texture scale
NormalizeBy8(uvs) ==
    [ i \in 1 .. Len(uvs) |->
        << [n |-> uvs[i][1], d |-> 8], [n |-> uvs[i][2], d |-> 8] >> ]

_normalize_uvs(uvs) == NormalizeBy16(uvs)

\* world coordinates in sixteenths of a block
ToUnits(v) == << v[1] * Unit, v[2] * Unit, v[3] * Unit >>

_build_merged_surface(uv_face, origin, size_x, size_y, size_z, uv_rect) ==
    LET from_coords    == <<0, 0, 0>>
        to_coords      == <<size_x, size_y, size_z>>
        local_vertices == _get_face_vertices(uv_face, from_coords, to_coords)
    IN  [ vertices |-> [ i \in 1 .. 4 |-> ToUnits(Add3(local_vertices[i], origin)) ],
          uvs      |-> _normalize_uvs(
                         _get_vertex_uvs(uv_face, local_vertices, from_coords,
                                         to_coords, uv_rect)) ]

-----------------------------------------------------------------------------
(* SurfaceBuilder: greedy merge of one plane *)

\* A surface of the list; a textured quad has color = << >>, a flat quad has
\* texture = NoTexture and uvs = << >> (the keys absent from the Python dict).
TexturedSurface(vertices, uvs, texture, tint, face, block_id) ==
    [ vertices |-> vertices, uvs |-> uvs, texture |-> texture, tint |-> tint,
      color |-> << >>, face |-> face, block_id |-> block_id ]

ColoredSurface(vertices, color, face, block_id) ==
    [ vertices |-> vertices, uvs |-> << >>, texture |-> NoTexture, tint |-> << >>,
      color |-> color, face |-> face, block_id |-> block_id ]

\* a merge that forgets the visited grid
CellMatchesIgnoringVisited(cells, visited, g, r, c, key) ==
    LET uv == << g.u_min + c, g.v_min + r >>
    IN  /\ uv \in DOMAIN cells
        /\ cells[uv][1] = key

\* mask[r][c] is a cell, it is unvisited and its key equals key
CellMatches(cells, visited, g, r, c, key) ==
    LET uv == << g.u_min + c, g.v_min + r >>
    IN  /\ uv \in DOMAIN cells
        /\ << r, c >> \notin visited
        /\ cells[uv][1] = key

RECURSIVE GrowWidth(_, _, _, _, _, _, _)
GrowWidth(cells, visited, g, row, col, key, width) ==
    IF col + width < g.cols /\ CellMatches(cells, visited, g, row, col + width, key)
    THEN GrowWidth(cells, visited, g, row, col, key, width + 1)
    ELSE width

\* a merge that never grows a rectangle beyond one row, as the variant
GrowHeightNever(cells, visited, g, row, col, key, width, height) == height

RECURSIVE GrowHeight(_, _, _, _, _, _, _, _)
GrowHeight(cells, visited, g, row, col, key, width, height) ==
    IF /\ row + height < g.rows
       /\ \A offset \in 0 .. width - 1 :
             CellMatches(cells, visited, g, row + height, col + offset, key)
    THEN GrowHeight(cells, visited, g, row, col, key, width, height + 1)
    ELSE height

\* lines 417-461: the quad of the rectangle at (u0, v0) of width x height
MergedQuad(face_name, plane, u0, v0, width, height, key, block_id) ==
    LET geo ==
          IF face_name \in {"top", "bottom"}
          THEN [ origin |-> <<u0, plane, v0>>, size_x |-> width, size_y |-> 1,
                 size_z |-> height,
                 uv_face |-> IF face_name = "top" THEN "up" ELSE "down",
                 uv_rect |-> <<0, 0, 16 * width, 16 * height>> ]
          ELSE IF face_name \in {"north", "south"}
          THEN [ origin |-> <<u0, v0, plane>>, size_x |-> width, size_y |-> height,
                 size_z |-> 1, uv_face |-> face_name,
                 uv_rect |-> <<0, 0, 16 * width, 16 * height>> ]
          ELSE [ origin |-> <<plane, v0, u0>>, size_x |-> 1, size_y |-> height,
                 size_z |-> width, uv_face |-> face_name,
                 uv_rect |-> <<0, 0, 16 * width, 16 * height>> ]
        built == _build_merged_surface(geo.uv_face, geo.origin, geo.size_x,
                                       geo.size_y, geo.size_z, geo.uv_rect)
    IN  IF key[1] = "tex"
        THEN TexturedSurface(built.vertices, built.uvs, key[2], << >>, face_name, block_id)
        ELSE ColoredSurface(built.vertices, key[2], face_name, block_id)

\* the row-major scan of lines 385-461, from cell index k on
RECURSIVE GreedyScan(_, _, _, _, _, _, _)
GreedyScan(face_name, plane, cells, g, k, visited, acc) ==
    IF k >= g.rows * g.cols THEN acc
    ELSE
      LET row == k \div g.cols
          col == k % g.cols
          uv  == << g.u_min + col, g.v_min + row >>
      IN  IF uv \notin DOMAIN cells \/ << row, col >> \in visited
          THEN GreedyScan(face_name, plane, cells, g, k + 1, visited, acc)
          ELSE
            LET key      == cells[uv][1]
                block_id == cells[uv][2]
                width    == GrowWidth(cells, visited, g, row, col, key, 1)
                height   == GrowHeight(cells, visited, g, row, col, key, width, 1)
                covered  == (row .. row + height - 1) \X (col .. col + width - 1)
                quad     == MergedQuad(face_name, plane, g.u_min + col, g.v_min + row,
                                       width, height, key, block_id)
            IN  GreedyScan(face_name, plane, cells, g, k + 1,
                           visited \cup covered, Append(acc, quad))

_greedy_merge_plane(face_name, plane, cells) ==
    LET u_min == SetMin({ c[1] : c \in DOMAIN cells })
        u_max == SetMax({ c[1] : c \in DOMAIN cells })
        v_min == SetMin({ c[2] : c \in DOMAIN cells })
        v_max == SetMax({ c[2] : c \in DOMAIN cells })
        g == [ u_min |-> u_min, v_min |-> v_min,
               rows |-> v_max - v_min + 1, cols |-> u_max - u_min + 1 ]
    IN  GreedyScan(face_name, plane, cells, g, 0, {}, << >>)

\* plane coordinate and cell of a position (lines 332-340)
PlaneOf(face_name, p) ==
    IF face_name \in {"top", "bottom"} THEN p[2]
    ELSE IF face_name \in {"north", "south"} THEN p[3]
    ELSE p[1]

CellOf(face_name, p) ==
    IF face_name \in {"top", "bottom"} THEN << p[1], p[3] >>
    ELSE IF face_name \in {"north", "south"} THEN << p[1], p[2] >>
    ELSE << p[3], p[2] >>

\* neighbor in self.blocks (lines 324-326)
NeighborPresent(all_blocks, p, direction) == Add3(p, direction) \in DOMAIN all_blocks

\* the cube positions whose face face_name enters a plane (lines 323-330)
FacePositions(face_name, cube_blocks, all_blocks) ==
    { p \in DOMAIN cube_blocks :
        /\ ~NeighborPresent(all_blocks, p, CUBE_FACE_DIRS[face_name])
        /\ _get_cube_face_key(cube_blocks[p], face_name) # << >> }

\* planes[plane] of _merge_face_planes
PlaneCells(face_name, plane, cube_blocks, all_blocks) ==
    LET ps == { p \in FacePositions(face_name, cube_blocks, all_blocks) :
                  PlaneOf(face_name, p) = plane }
    IN  [ c \in { CellOf(face_name, p) : p \in ps } |->
            LET p == CHOOSE q \in ps : CellOf(face_name, q) = c
            IN  << _get_cube_face_key(cube_blocks[p], face_name), cube_blocks[p] >> ]

RECURSIVE MergePlanesFrom(_, _, _, _)
MergePlanesFrom(face_name, planes, cube_blocks, all_blocks) ==
    IF planes = {} THEN << >>
    ELSE LET plane == SetMin(planes)
         IN  _greedy_merge_plane(face_name, plane,
                                 PlaneCells(face_name, plane, cube_blocks, all_blocks))
             \o MergePlanesFrom(face_name, planes \ {plane}, cube_blocks, all_blocks)

\* The planes are merged in ascending order; the dict order of the code only
\* permutes the resulting list.
_merge_face_planes(face_name, cube_blocks, all_blocks) ==
    MergePlanesFrom(face_name,
                    { PlaneOf(face_name, p) :
                        p \in FacePositions(face_name, cube_blocks, all_blocks) },
                    cube_blocks, all_blocks)

RECURSIVE GreedyFacesFrom(_, _, _)
GreedyFacesFrom(i, cube_blocks, all_blocks) ==
    IF i > Len(CubeFaceOrder) THEN << >>
    ELSE _merge_face_planes(CubeFaceOrder[i], cube_blocks, all_blocks)
         \o GreedyFacesFrom(i + 1, cube_blocks, all_blocks)

_build_greedy_cube_surfaces(cube_blocks, all_blocks) ==
    IF DOMAIN cube_blocks = {} THEN << >>
    ELSE GreedyFacesFrom(1, cube_blocks, all_blocks)

-----------------------------------------------------------------------------
(* ModelResolver.  A model file is the JSON object                          *)
(*   [keys, parent, textures, elements]                                    *)
(* where keys is the set of keys present in the object.  A texture          *)
(* reference "#name" is <<"#", name>>; a path "minecraft:block/name", of a  *)
(* texture or of a model, is <<namespace prefix, folder prefix, name>>.     *)

NoParent == << "", "", "" >>

NoModel == [ keys |-> {}, parent |-> NoParent, textures |-> << >>, elements |-> << >> ]

ModelPath(name) == << "", "", name >>

\* one entry of "faces"; an absent cullface or tintindex is None, a tintindex
\* that is present is held as its text
Face(name, texture, uv, rotation, cullface, tintindex) ==
    [ name |-> name, texture |-> texture, uv |-> uv, rotation |-> rotation,
      cullface |-> cullface, tintindex |-> tintindex ]

\* the files under models/block of the resource tree used here
ModelFiles ==
    [ hopper |->
        [ keys |-> {"textures", "elements"}, parent |-> NoParent,
          textures |-> [ side   |-> <<"minecraft:", "block/", "hopper_outside">>,
                         top    |-> <<"", "block/", "hopper_top">>,
                         inside |-> <<"#", "side">> ],
          elements |->
            << [ from |-> <<0, 10, 0>>, to |-> <<16, 16, 16>>,
                 faces |-> << Face("north", <<"#", "side">>, << >>, 0, "north", None),
                              Face("up", <<"#", "top">>, <<0, 0, 16, 16>>, 90, "up", None),
                              Face("east", <<"#", "inside">>, <<0, 0, 16, 6>>, 0, "east", None) >> ],
               [ from |-> <<4, 4, 4>>, to |-> <<12, 10, 12>>,
                 faces |-> << Face("south", <<"#", "side">>, << >>, 180, None, None),
                              Face("down", <<"#", "bottom">>, << >>, 270, "down", None) >> ] >> ],
      hopper_side |->
        [ keys |-> {"textures", "elements"}, parent |-> NoParent,
          textures |-> [ side |-> <<"minecraft:", "block/", "hopper_outside">>,
                         top  |-> <<"", "block/", "hopper_top">> ],
          elements |->
            << [ from |-> <<0, 10, 0>>, to |-> <<16, 16, 16>>,
                 faces |-> << Face("north", <<"#", "side">>, << >>, 0, "north", None),
                              Face("up", <<"#", "top">>, <<0, 0, 16, 16>>, 0, "up", None) >> ] >> ],
      redstone_dust_dot |->
        [ keys |-> {"textures", "elements"}, parent |-> NoParent,
          textures |-> [ line    |-> <<"", "block/", "redstone_dust_dot">>,
                         overlay |-> <<"", "block/", "redstone_dust_overlay">> ],
          elements |->
            << [ from |-> <<0, 1, 0>>, to |-> <<16, 1, 16>>,
                 faces |-> << Face("up", <<"#", "line">>, <<0, 0, 16, 16>>, 0, None, "0"),
                              Face("down", <<"#", "line">>, <<0, 0, 16, 16>>, 0, "down", "0") >> ],
               [ from |-> <<0, 1, 0>>, to |-> <<16, 1, 16>>,
                 faces |-> << Face("up", <<"#", "overlay">>, <<0, 0, 16, 16>>, 0, None, None),
                              Face("down", <<"#", "overlay">>, <<0, 0, 16, 16>>, 0, "down", None) >> ] >> ],
      redstone_dust_side |->
        [ keys |-> {"textures", "elements"}, parent |-> NoParent,
          textures |-> [ overlay |-> <<"", "block/", "redstone_dust_overlay">> ],
          elements |->
            << [ from |-> <<0, 1, 0>>, to |-> <<16, 1, 8>>,
                 faces |-> << Face("up", <<"#", "line">>, <<0, 0, 16, 8>>, 0, None, "0") >> ],
               [ from |-> <<0, 1, 0>>, to |-> <<16, 1, 8>>,
                 faces |-> << Face("up", <<"#", "overlay">>, <<0, 0, 16, 8>>, 0, None, None) >> ] >> ],
      redstone_dust_side0 |->
        [ keys |-> {"parent", "textures"},
          parent |-> <<"minecraft:", "block/", "redstone_dust_side">>,
          textures |-> [ line |-> <<"", "block/", "redstone_dust_line0">> ],
          elements |-> << >> ],
      redstone_dust_up |->
        [ keys |-> {"textures", "elements"}, parent |-> NoParent,
          textures |-> [ line    |-> <<"", "block/", "redstone_dust_line0">>,
                         overlay |-> <<"", "block/", "redstone_dust_overlay">> ],
          elements |->
            << [ from |-> <<0, 0, 1>>, to |-> <<16, 16, 1>>,
                 faces |-> << Face("south", <<"#", "line">>, <<0, 0, 16, 16>>, 0, None, "0"),
                              Face("north", <<"#", "overlay">>, <<0, 0, 16, 16>>, 0, "north", None) >> ] >> ] ]

\* strips a leading "minecraft:" and then a leading "block/"
_normalize_model_name(model_name) == model_name[3]

\* a merge in which the ancestor's value of a shared texture key is kept
MergeParentWins(parent, child) ==
    [ keys     |-> parent.keys \cup child.keys,
      parent   |-> IF "parent" \in parent.keys THEN parent.parent ELSE child.parent,
      textures |-> IF "textures" \in child.keys /\ "textures" \in parent.keys
                   THEN [ k \in DOMAIN parent.textures \cup DOMAIN child.textures |->
                            IF k \in DOMAIN parent.textures THEN parent.textures[k]
                            ELSE child.textures[k] ]
                   ELSE IF "textures" \in parent.keys THEN parent.textures
                   ELSE child.textures,
      elements |-> IF "elements" \in child.keys THEN child.elements
                   ELSE parent.elements ]

_merge_model_data(parent, child) ==
    [ keys     |-> parent.keys \cup child.keys,
      parent   |-> IF "parent" \in parent.keys THEN parent.parent ELSE child.parent,
      textures |-> IF "textures" \in child.keys /\ "textures" \in parent.keys
                   THEN [ k \in DOMAIN parent.textures \cup DOMAIN child.textures |->
                            IF k \in DOMAIN child.textures THEN child.textures[k]
                            ELSE parent.textures[k] ]
                   ELSE IF "textures" \in parent.keys THEN parent.textures
                   ELSE child.textures,
      elements |-> IF "elements" \in child.keys THEN child.elements
                   ELSE parent.elements ]

\* the nested calls of _resolve_inheritance the interpreter stack has room for
MaxDepth == 4

\* the stack is exhausted and the model given to the call is lost
OnExhaustionNoModel(model_data) == NoModel

\* The stack is exhausted: the deepest calls of one level are those of
\* json.load inside _load_model_file, so the RecursionError is raised there,
\* its except clause returns None, and "if not parent_data" returns the model
\* the call was given.
OnExhaustion(model_data) == model_data

\* _resolve_inheritance over the model files model_files with room for depth
\* further nested calls
RECURSIVE ResolveIn(_, _, _)
ResolveIn(model_files, model_data, depth) ==
    IF "parent" \notin model_data.keys THEN model_data
    ELSE IF _normalize_model_name(model_data.parent) \notin DOMAIN model_files
    THEN model_data
    ELSE IF depth = 0 THEN OnExhaustion(model_data)
    ELSE IF model_files[_normalize_model_name(model_data.parent)].keys = {} THEN model_data
    ELSE _merge_model_data(
           ResolveIn(model_files, model_files[_normalize_model_name(model_data.parent)], depth - 1),
           model_data)

_resolve_inheritance(model_data) == ResolveIn(ModelFiles, model_data, MaxDepth)

\* a load that answers a missing file with an object without elements
LoadMissingAsEmptyObject(model_name) ==
    LET normalized == _normalize_model_name(model_name)
    IN  IF normalized \notin DOMAIN ModelFiles
        THEN [ NoModel EXCEPT !.keys = {"textures"} ]
        ELSE _resolve_inheritance(ModelFiles[normalized])

\* The cache holds the value load computes, so a cached answer equals this one.
ModelResolver_load(model_name) ==
    LET normalized == _normalize_model_name(model_name)
    IN  IF normalized \notin DOMAIN ModelFiles THEN NoModel
        ELSE _resolve_inheritance(ModelFiles[normalized])

\* bool(model): a loaded JSON object with at least one key
ModelTruthy(model) == model.keys # {}

-----------------------------------------------------------------------------
(* TextureSampler: texture references and tint *)

RECURSIVE resolve_texture_name(_, _)
resolve_texture_name(model_data, texture_ref) ==
    IF texture_ref = << >> THEN NoTexture
    ELSE IF texture_ref[1] = "#"
    THEN IF "textures" \in model_data.keys /\ texture_ref[2] \in DOMAIN model_data.textures
         THEN resolve_texture_name(model_data, model_data.textures[texture_ref[2]])
         ELSE NoTexture
    ELSE << texture_ref[3], "" >>

\* int(r * 255), int(g * 255), int(b * 255) of the ramp in exact arithmetic:
\*   r * 255 = (51 p + 510) / 5,  g * 255 = (357 p^2 - 57375) / 450,
\*   b * 255 = (306 p^2 - 80325) / 450, negative values clamped to 0.
\* The double 0.7 - 0.5 is 0.19999999999999996, so the code's green at
\* power 15 is 50 where the exact quotient is 51.
\* the ramp without max(0, min(15, power)), as the variant
TintRampUnclamped(power) ==
    << (51 * power + 510) \div 5,
       IF power = 15 THEN 50 ELSE Max(0, 357 * power * power - 57375) \div 450,
       Max(0, 306 * power * power - 80325) \div 450 >>

TintRamp(power) ==
    LET p == Max(0, Min(15, power))
    IN  << (51 * p + 510) \div 5,
           IF p = 15 THEN 50 ELSE Max(0, 357 * p * p - 57375) \div 450,
           Max(0, 306 * p * p - 80325) \div 450 >>

\* the decimal texts of 0 .. 16; a property value is a text
DecimalTexts ==
    << "0", "1", "2", "3", "4", "5", "6", "7", "8", "9", "10", "11", "12", "13", "14",
       "15", "16" >>

\* int(power_value), and 0 where int raises TypeError or ValueError
IntOrZero(power_value) ==
    IF \E i \in DOMAIN DecimalTexts : DecimalTexts[i] = power_value
    THEN (CHOOSE i \in DOMAIN DecimalTexts : DecimalTexts[i] = power_value) - 1
    ELSE IF power_value = "-1" THEN 0 - 1
    ELSE IF power_value = "120" THEN 120
    ELSE 0

_get_tint_color(block_id, properties, tintindex) ==
    IF tintindex = None THEN << >>
    ELSE IF BlockName(block_id) # "redstone_wire" THEN << >>
    ELSE TintRamp(IntOrZero(PropGet(properties, "power", "0")))

\* Called for a face without a texture name: build_face_image returns None
\* and the colour is the neutral (200, 200, 200).
sample_face_color(model_data, face_data, block_id, properties) == <<200, 200, 200>>

-----------------------------------------------------------------------------
(* SurfaceBuilder: special models *)

\* a table that turns east and west the wrong way round
RotationEastWestSwapped(direction) ==
    CASE direction = "north" -> <<0, 0, 0>>
      [] direction = "east"  -> <<0, 270, 0>>
      [] direction = "south" -> <<0, 180, 0>>
      [] direction = "west"  -> <<0, 90, 0>>
      [] direction = "up"    -> <<90, 0, 0>>
      [] direction = "down"  -> <<270, 0, 0>>
      [] OTHER               -> <<0, 0, 0>>

_rotation_for_facing(direction) ==
    CASE direction = "north" -> <<0, 0, 0>>
      [] direction = "east"  -> <<0, 90, 0>>
      [] direction = "south" -> <<0, 180, 0>>
      [] direction = "west"  -> <<0, 270, 0>>
      [] direction = "up"    -> <<90, 0, 0>>
      [] direction = "down"  -> <<270, 0, 0>>
      [] OTHER               -> <<0, 0, 0>>

Instance(model, rotation) == [ model |-> model, rotation |-> rotation ]

_get_hopper_models(properties) ==
    LET facing == PropGet(properties, "facing", "down")
    IN  IF facing = "down"
        THEN LET model == ModelResolver_load(ModelPath("hopper"))
             IN  IF ModelTruthy(model) THEN << Instance(model, <<0, 0, 0>>) >> ELSE << >>
        ELSE LET model == ModelResolver_load(ModelPath("hopper_side"))
             IN  IF ModelTruthy(model)
                 THEN << Instance(model, _rotation_for_facing(facing)) >> ELSE << >>

WireDirections == << "north", "east", "south", "west" >>

\* the loop over ("north", "east", "south", "west") from direction i on
RECURSIVE WireSidesFrom(_, _, _, _)
WireSidesFrom(properties, side_model, up_model, i) ==
    IF i > Len(WireDirections) THEN << >>
    ELSE LET direction == WireDirections[i]
             state     == PropGet(properties, direction, "none")
             rotation  == _rotation_for_facing(direction)
         IN  (IF state = "none" THEN << >>
              ELSE << Instance(side_model, rotation) >>
                   \o (IF state = "up" /\ ModelTruthy(up_model)
                       THEN << Instance(up_model, rotation) >> ELSE << >>))
             \o WireSidesFrom(properties, side_model, up_model, i + 1)

_get_redstone_models(properties) ==
    LET has_connection ==
            \E d \in {"north", "south", "east", "west"} : PropGet(properties, d, "none") # "none"
    IN  IF ~has_connection
        THEN LET model == ModelResolver_load(ModelPath("redstone_dust_dot"))
             IN  IF ModelTruthy(model) THEN << Instance(model, <<0, 0, 0>>) >> ELSE << >>
        ELSE LET side_model == ModelResolver_load(ModelPath("redstone_dust_side0"))
                 up_model   == ModelResolver_load(ModelPath("redstone_dust_up"))
             IN  IF ~ModelTruthy(side_model) THEN << >>
                 ELSE WireSidesFrom(properties, side_model, up_model, 1)

\* the piston and sticky_piston branches; a piston_head is not placed here
_get_piston_models(block_id, properties) ==
    LET name     == BlockName(block_id)
        rotation == _rotation_for_facing(PropGet(properties, "facing", "north"))
        model    == ModelResolver_load(ModelPath(name))
    IN  IF ModelTruthy(model) THEN << Instance(model, rotation) >> ELSE << >>

\* The piston_head and pane branches select models for blocks that are not
\* placed here; for every block of this model they are not taken.
_get_special_models(block_id, properties) ==
    LET name == BlockName(block_id)
    IN  IF name = "redstone_wire" THEN _get_redstone_models(properties)
        ELSE IF name = "hopper" THEN _get_hopper_models(properties)
        ELSE IF name \in {"piston", "sticky_piston"}
        THEN _get_piston_models(block_id, properties)
        ELSE << >>

\* cos and sin of a multiple of 90 degrees
Cos90(deg) == CASE deg % 360 = 0 -> 1 [] deg % 360 = 180 -> -1 [] OTHER -> 0
Sin90(deg) == CASE deg % 360 = 90 -> 1 [] deg % 360 = 270 -> -1 [] OTHER -> 0

\* one vertex, in sixteenths, about the block centre (8, 8, 8): x, then y, then z
RotateVertex(v, rotation) ==
    LET c  == Unit \div 2
        p0 == << v[1] - c, v[2] - c, v[3] - c >>
        p1 == IF rotation[1] # 0
              THEN << p0[1],
                      p0[2] * Cos90(rotation[1]) - p0[3] * Sin90(rotation[1]),
                      p0[2] * Sin90(rotation[1]) + p0[3] * Cos90(rotation[1]) >>
              ELSE p0
        p2 == IF rotation[2] # 0
              THEN << p1[1] * Cos90(rotation[2]) + p1[3] * Sin90(rotation[2]),
                      p1[2],
                      (0 - p1[1]) * Sin90(rotation[2]) + p1[3] * Cos90(rotation[2]) >>
              ELSE p1
        p3 == IF rotation[3] # 0
              THEN << p2[1] * Cos90(rotation[3]) - p2[2] * Sin90(rotation[3]),
                      p2[1] * Sin90(rotation[3]) + p2[2] * Cos90(rotation[3]),
                      p2[3] >>
              ELSE p2
    IN  << p3[1] + c, p3[2] + c, p3[3] + c >>

_apply_rotation(vertices, rotation) ==
    IF rotation = <<0, 0, 0>> THEN vertices
    ELSE [ i \in 1 .. Len(vertices) |-> RotateVertex(vertices[i], rotation) ]

_get_uv_rect(face_name, from_coords, to_coords, face_data) ==
    LET x1 == from_coords[1]  y1 == from_coords[2]  z1 == from_coords[3]
        x2 == to_coords[1]    y2 == to_coords[2]    z2 == to_coords[3]
    IN  IF face_data.uv # << >> THEN face_data.uv
        ELSE CASE face_name \in {"north", "south"} -> << x1, 16 - y2, x2, 16 - y1 >>
               [] face_name \in {"east", "west"}   -> << z1, 16 - y2, z2, 16 - y1 >>
               [] face_name = "up"                 -> << x1, z1, x2, z2 >>
               [] face_name = "down"               -> << x1, 16 - z2, x2, 16 - z1 >>
               [] OTHER                            -> << 0, 0, 16, 16 >>

\* _apply_uv_rotation turning by 270 degrees as it turns by 90, as the variant
ApplyUVRotationQuarterOnly(uvs, uv_rect, rotation) ==
    LET rot    == rotation % 360
        u1     == uv_rect[1]
        v1     == uv_rect[2]
        width  == uv_rect[3] - uv_rect[1]
        height == uv_rect[4] - uv_rect[2]
        turn(uv) ==
            LET s == (uv[1] - u1) \div width
                t == (uv[2] - v1) \div height
                st == CASE rot = 90  -> << t, 1 - s >>
                        [] rot = 180 -> << 1 - s, 1 - t >>
                        [] rot = 270 -> << t, 1 - s >>
                        [] OTHER     -> << s, t >>
            IN  << u1 + st[1] * width, v1 + st[2] * height >>
    IN  IF rot = 0 THEN uvs
        ELSE IF width = 0 \/ height = 0 THEN uvs
        ELSE [ i \in 1 .. Len(uvs) |-> turn(uvs[i]) ]

\* The UVs handed in are corners of uv_rect, so s and t are 0 or 1 and the
\* quotients are exact; the sums and products are those of real arithmetic.
_apply_uv_rotation(uvs, uv_rect, rotation) ==
    LET rot    == rotation % 360
        u1     == uv_rect[1]
        v1     == uv_rect[2]
        width  == uv_rect[3] - uv_rect[1]
        height == uv_rect[4] - uv_rect[2]
        turn(uv) ==
            LET s == (uv[1] - u1) \div width
                t == (uv[2] - v1) \div height
                st == CASE rot = 90  -> << t, 1 - s >>
                        [] rot = 180 -> << 1 - s, 1 - t >>
                        [] rot = 270 -> << 1 - t, s >>
                        [] OTHER     -> << s, t >>
            IN  << u1 + st[1] * width, v1 + st[2] * height >>
    IN  IF rot = 0 THEN uvs
        ELSE IF width = 0 \/ height = 0 THEN uvs
        ELSE [ i \in 1 .. Len(uvs) |-> turn(uvs[i]) ]

\* _has_neighbor looking on the opposite side, as the variant
HasNeighborBehind(all_blocks, position, face_name) ==
    IF face_name \notin DOMAIN FACE_DIRS THEN FALSE
    ELSE Add3(position, [ i \in 1 .. 3 |-> 0 - FACE_DIRS[face_name][i] ]) \in DOMAIN all_blocks

_has_neighbor(all_blocks, position, face_name) ==
    IF face_name \notin DOMAIN FACE_DIRS THEN FALSE
    ELSE Add3(position, FACE_DIRS[face_name]) \in DOMAIN all_blocks

\* the quad of one face of one element (lines 222-261), or << >> when the
\* face is skipped
ModelFaceSurfaces(all_blocks, position, block_id, properties, model_data, rotation, element, face_data) ==
    LET face_name    == face_data.name
        texture_name == resolve_texture_name(model_data, face_data.texture)
        local        == _get_face_vertices(face_name, element.from, element.to)
        uv_rect      == _get_uv_rect(face_name, element.from, element.to, face_data)
        uvs0         == _get_vertex_uvs(face_name, local, element.from, element.to, uv_rect)
        uvs1         == IF face_data.rotation # 0
                        THEN _apply_uv_rotation(uvs0, uv_rect, face_data.rotation)
                        ELSE uvs0
        uvs          == _normalize_uvs(uvs1)
        rotated      == _apply_rotation(local, rotation)
        vertices     == [ i \in 1 .. 4 |-> Add3(rotated[i], ToUnits(position)) ]
        tint_color   == _get_tint_color(block_id, properties, face_data.tintindex)
    IN  IF face_data.cullface # None /\ _has_neighbor(all_blocks, position, face_data.cullface)
        THEN << >>
        ELSE IF /\ BlockName(block_id) = "redstone_wire"
                /\ texture_name # NoTexture
                /\ texture_name[1] \in {"redstone_dust_overlay"}
        THEN << >>
        ELSE IF texture_name # NoTexture
        THEN << TexturedSurface(vertices, uvs, texture_name, tint_color, face_name, block_id) >>
        ELSE << ColoredSurface(vertices,
                               _apply_shading(sample_face_color(model_data, face_data,
                                                                block_id, properties),
                                              face_name),
                               face_name, block_id) >>

RECURSIVE ElementFacesFrom(_, _, _, _, _, _, _, _)
ElementFacesFrom(all_blocks, position, block_id, properties, model_data, rotation, element, i) ==
    IF i > Len(element.faces) THEN << >>
    ELSE ModelFaceSurfaces(all_blocks, position, block_id, properties, model_data,
                           rotation, element, element.faces[i])
         \o ElementFacesFrom(all_blocks, position, block_id, properties, model_data,
                             rotation, element, i + 1)

RECURSIVE ElementsFrom(_, _, _, _, _, _, _)
ElementsFrom(all_blocks, position, block_id, properties, model_data, rotation, i) ==
    IF i > Len(model_data.elements) THEN << >>
    ELSE ElementFacesFrom(all_blocks, position, block_id, properties, model_data,
                          rotation, model_data.elements[i], 1)
         \o ElementsFrom(all_blocks, position, block_id, properties, model_data,
                         rotation, i + 1)

_build_model_surfaces(all_blocks, position, block_id, properties, model_data, rotation) ==
    IF ~ModelTruthy(model_data) \/ "elements" \notin model_data.keys THEN << >>
    ELSE ElementsFrom(all_blocks, position, block_id, properties, model_data, rotation, 1)

RECURSIVE InstancesFrom(_, _, _, _)
InstancesFrom(all_blocks, position, instances, i) ==
    IF i > Len(instances) THEN << >>
    ELSE _build_model_surfaces(all_blocks, position, all_blocks[position].id,
                               all_blocks[position].properties,
                               instances[i].model, instances[i].rotation)
         \o InstancesFrom(all_blocks, position, instances, i + 1)

\* the positions routed to per-element emission and to the greedy merge
SpecialPositions(all_blocks) ==
    { p \in DOMAIN all_blocks :
        _get_special_models(all_blocks[p].id, all_blocks[p].properties) # << >> }

CubeBlocks(all_blocks) ==
    [ p \in DOMAIN all_blocks \ SpecialPositions(all_blocks) |-> all_blocks[p].id ]

\* positions in the order x, y, z ascending (the list order across blocks is
\* the dict order in the code; it only permutes the list)
PosLess(p, q) ==
    \/ p[1] < q[1]
    \/ p[1] = q[1] /\ p[2] < q[2]
    \/ p[1] = q[1] /\ p[2] = q[2] /\ p[3] < q[3]

RECURSIVE SpecialSurfacesFrom(_, _)
SpecialSurfacesFrom(all_blocks, ps) ==
    IF ps = {} THEN << >>
    ELSE LET p == CHOOSE q \in ps : \A r \in ps \ {q} : PosLess(q, r)
         IN  InstancesFrom(all_blocks, p,
                           _get_special_models(all_blocks[p].id, all_blocks[p].properties), 1)
             \o SpecialSurfacesFrom(all_blocks, ps \ {p})

build_surfaces(all_blocks) ==
    SpecialSurfacesFrom(all_blocks, SpecialPositions(all_blocks))
    \o _build_greedy_cube_surfaces(CubeBlocks(all_blocks), all_blocks)

-----------------------------------------------------------------------------
(* PyVistaRenderer.create_mesh: the batches handed to the mesh library *)

RECURSIVE TexturedSurfacesFrom(_, _, _)
TexturedSurfacesFrom(surface_data, has_sampler, i) ==
    IF i > Len(surface_data) THEN << >>
    ELSE (IF surface_data[i].texture # NoTexture /\ surface_data[i].uvs # << >> /\ has_sampler
          THEN << surface_data[i] >> ELSE << >>)
         \o TexturedSurfacesFrom(surface_data, has_sampler, i + 1)

RECURSIVE ColoredSurfacesFrom(_, _)
ColoredSurfacesFrom(surface_data, i) ==
    IF i > Len(surface_data) THEN << >>
    ELSE (IF surface_data[i].texture = NoTexture \/ surface_data[i].uvs = << >>
          THEN << surface_data[i] >> ELSE << >>)
         \o ColoredSurfacesFrom(surface_data, i + 1)

\* the keys (texture_name, tint) of grouped, in the order of first appearance
RECURSIVE GroupKeysFrom(_, _, _)
GroupKeysFrom(textured, i, acc) ==
    IF i > Len(textured) THEN acc
    ELSE LET key == << textured[i].texture, textured[i].tint >>
         IN  GroupKeysFrom(textured, i + 1,
                           IF \E k \in DOMAIN acc : acc[k] = key THEN acc ELSE Append(acc, key))

\* the surfaces of one group whose vertices and uvs are equally many
RECURSIVE GroupSurfacesFrom(_, _, _)
GroupSurfacesFrom(textured, key, i) ==
    IF i > Len(textured) THEN << >>
    ELSE (IF /\ << textured[i].texture, textured[i].tint >> = key
             /\ Len(textured[i].vertices) = Len(textured[i].uvs)
          THEN << textured[i] >> ELSE << >>)
         \o GroupSurfacesFrom(textured, key, i + 1)

\* TextureSampler.get_texture_image: the file of the texture if there is one,
\* else a copy of the default texture, then the tint
get_texture_image(texture_name, tint_color) ==
    [ source |-> IF texture_name \in AvailableTextures THEN "file" ELSE "default",
      name   |-> IF texture_name \in AvailableTextures THEN texture_name ELSE NoTexture,
      tint   |-> tint_color ]

_build_textured_meshes(textured) ==
    LET keys == GroupKeysFrom(textured, 1, << >>)
    IN  [ k \in 1 .. Len(keys) |->
            [ texture |-> keys[k][1], tint |-> keys[k][2],
              image   |-> get_texture_image(keys[k][1], keys[k][2]),
              quads   |-> GroupSurfacesFrom(textured, keys[k], 1) ] ]

create_mesh(surface_data, has_sampler) ==
    IF surface_data = << >> THEN NoMesh
    ELSE LET textured == TexturedSurfacesFrom(surface_data, has_sampler, 1)
             colored  == ColoredSurfacesFrom(surface_data, 1)
             batches  == IF textured # << >> /\ has_sampler
                         THEN _build_textured_meshes(textured) ELSE << >>
         IN  [ ok |-> colored # << >> \/ batches # << >>,
               textured |-> batches, colored |-> colored ]

-----------------------------------------------------------------------------
(* The surface pipeline: load a structure, build the voxel model, build the *)
(* surface list.                                                           *)

\* the region of a structure: the blocks f at the positions S, air elsewhere
Region(S, f) == [ p \in Positions |-> IF p \in S THEN f[p] ELSE AirBlock ]

\* the structures the decoder may deliver hold at most MaxBlocks non-air blocks
SurfaceInit ==
    /\ \E S \in { T \in SUBSET Positions : Cardinality(T) <= MaxBlocks } :
          \E f \in [ S -> BlockChoices ] : schematic = Region(S, f)
    /\ blocks = EmptyBlocks
    /\ bounds = ZeroBounds
    /\ surfaces = << >>
    /\ spc = "loaded"
    /\ mesh = NoMesh
    /\ JobIdle
    /\ CmdIdle
    /\ CamIdle
    /\ FnIdle
    /\ ConIdle
    /\ RndIdle
    /\ StrIdle

\* ModelBuilder.build_from_litematic
BuildFromLitematic ==
    /\ spc = "loaded"
    /\ mesh = NoMesh
    /\ blocks' = BuiltBlocks(schematic)
    /\ bounds' = BuiltBounds(schematic)
    /\ spc' = "model"
    /\ UNCHANGED << rndVars, strVars, conVars, mesh, schematic, surfaces, jobVars, cmdVars, camVars, fnVars >>

\* SurfaceBuilder.build_surfaces
BuildSurfaces ==
    /\ spc = "model"
    /\ surfaces' = build_surfaces(blocks)
    /\ spc' = "surfaces"
    /\ UNCHANGED << rndVars, strVars, conVars, mesh, schematic, blocks, bounds, jobVars, cmdVars, camVars, fnVars >>

\* PyVistaRenderer.create_mesh on the surface list; the manager constructs
\* the renderer with its resource directory, so in a job a texture sampler
\* exists
CreateMesh ==
    /\ spc = "surfaces"
    /\ mesh' = create_mesh(surfaces, r_sampler)
    /\ spc' = "mesh"
    /\ UNCHANGED << rndVars, strVars, conVars, schematic, blocks, bounds, surfaces, jobVars, cmdVars, camVars, fnVars >>

SurfaceNext == BuildFromLitematic \/ BuildSurfaces \/ CreateMesh

\* Structures with blocks that have a model of their own: a hopper, wires
\* without and with connections, a piston (no piston model file exists in
\* the resource tree used here) beside plain cubes.
MaxSpecial == 2

Wire(props) == Block("minecraft", "redstone_wire", props)

SpecialBlockChoices ==
    { Block("minecraft", "andesite", NoProps),
      Block("minecraft", "grass_block", NoProps),
      Block("minecraft", "hopper", [NoProps EXCEPT !["facing"] = "down"]),
      Block("minecraft", "piston", [NoProps EXCEPT !["facing"] = "east"]),
      Wire([NoProps EXCEPT !["power"] = "0"]),
      Wire([NoProps EXCEPT !["power"] = "15", !["north"] = "none"]),
      Wire([NoProps EXCEPT !["power"] = "7", !["east"] = "up", !["south"] = "side"]) }

SpecialInit ==
    /\ \E S \in { T \in SUBSET Positions : Cardinality(T) <= MaxSpecial } :
          \E f \in [ S -> SpecialBlockChoices ] : schematic = Region(S, f)
    /\ blocks = EmptyBlocks
    /\ bounds = ZeroBounds
    /\ surfaces = << >>
    /\ spc = "loaded"
    /\ mesh = NoMesh
    /\ JobIdle
    /\ CmdIdle
    /\ CamIdle
    /\ FnIdle
    /\ ConIdle
    /\ RndIdle
    /\ StrIdle

SpecSpecial == SpecialInit /\ [][SurfaceNext]_vars

SpecSurface == SurfaceInit /\ [][SurfaceNext]_vars

-----------------------------------------------------------------------------
(* Properties of the surface list *)

Range(f) == { f[x] : x \in DOMAIN f }

SurfaceIdx == DOMAIN surfaces

\* the ids of the plain cubes of the voxel map
CubeIds == Range(CubeBlocks(blocks))

\* the quads that come from the greedy merge: their block is a plain cube
IsMergedQuad(s) == s.block_id \in CubeIds

Coord(s, axis) == { s.vertices[i][axis] : i \in 1 .. 4 }
Lo(s, axis) == SetMin(Coord(s, axis)) \div Unit
Hi(s, axis) == SetMax(Coord(s, axis)) \div Unit
Extent(s, axis) == Hi(s, axis) - Lo(s, axis)

NormalAxis(face_name) ==
    IF face_name \in {"top", "bottom"} THEN 2
    ELSE IF face_name \in {"north", "south"} THEN 3
    ELSE 1

\* the voxel coordinates a merged quad covers along one axis
AxisCells(s, axis) ==
    IF axis = NormalAxis(s.face)
    THEN IF s.face \in {"top", "south", "east"} THEN { Lo(s, axis) - 1 } ELSE { Lo(s, axis) }
    ELSE Lo(s, axis) .. Hi(s, axis) - 1

\* the voxels whose face s.face lies inside the merged quad s
Covered(s) == AxisCells(s, 1) \X AxisCells(s, 2) \X AxisCells(s, 3)

\* the unit faces that pass the culling test: a plain cube whose neighbour on
\* the face-normal side is absent from the voxel map
Exposed(face_name) ==
    { p \in DOMAIN CubeBlocks(blocks) :
        Add3(p, CUBE_FACE_DIRS[face_name]) \notin DOMAIN blocks }

QuadKey(s) ==
    IF s.texture # NoTexture THEN <<"tex", s.texture>> ELSE <<"color", s.color>>

MergedQuadsOf(face_name) ==
    { i \in SurfaceIdx : IsMergedQuad(surfaces[i]) /\ surfaces[i].face = face_name }

\* C1: for every face direction the merged quads partition exactly the unit
\* faces that pass the culling test: each exposed cell lies in exactly one
\* quad, no quad covers a culled or empty cell, and all cells of one quad
\* carry the quad's material key.
C1_GreedyPartition ==
    spc = "surfaces" =>
      \A f \in Range(CubeFaceOrder) :
        /\ \A p \in Exposed(f) :
              Cardinality({ i \in MergedQuadsOf(f) : p \in Covered(surfaces[i]) }) = 1
        /\ \A i \in MergedQuadsOf(f) :
              /\ Covered(surfaces[i]) # {}
              /\ Covered(surfaces[i]) \subseteq Exposed(f)
              /\ \A p \in Covered(surfaces[i]) :
                    _get_cube_face_key(blocks[p].id, f) = QuadKey(surfaces[i])

\* a surface list holding a merged quad of two or more cells, a culled cube
\* face and two exposed cells of one direction with different material keys
C1_Witness ==
    /\ spc = "surfaces"
    /\ \E i \in SurfaceIdx :
          IsMergedQuad(surfaces[i]) /\ Cardinality(Covered(surfaces[i])) >= 2
    /\ \E f \in Range(CubeFaceOrder) :
          /\ \E p \in DOMAIN CubeBlocks(blocks) : p \notin Exposed(f)
          /\ \E p, q \in Exposed(f) :
                _get_cube_face_key(blocks[p].id, f) # _get_cube_face_key(blocks[q].id, f)

InUnit(q) == 0 <= q.n /\ q.n <= q.d

\* q lies in [0, k]
InSpan(q, k) == 0 <= q.n /\ q.n <= k * q.d

\* width and height of a merged quad in blocks, as the merge counts them
QuadWidth(s) ==
    IF s.face \in {"east", "west"} THEN Extent(s, 3) ELSE Extent(s, 1)

QuadHeight(s) ==
    IF s.face \in {"top", "bottom"} THEN Extent(s, 3) ELSE Extent(s, 2)

\* C2 as claimed: every UV pair of every surface lies in [0,1] x [0,1].
C2_UVsInUnitSquare ==
    spc = "surfaces" =>
      \A i \in SurfaceIdx : \A j \in DOMAIN surfaces[i].uvs :
        InUnit(surfaces[i].uvs[j][1]) /\ InUnit(surfaces[i].uvs[j][2])

\* C2 amended: the UV pairs of a per-element model quad lie in the unit
\* square, and those of a merged cube quad of width w and height h blocks
\* lie in [0,w] x [0,h] and reach (w, h): the texture tiles once per block.
C2_UVsTileMergedQuads ==
    spc = "surfaces" =>
      \A i \in SurfaceIdx :
        LET s == surfaces[i]
        IN  IF IsMergedQuad(s)
            THEN /\ \A j \in DOMAIN s.uvs :
                       /\ InSpan(s.uvs[j][1], QuadWidth(s))
                       /\ InSpan(s.uvs[j][2], QuadHeight(s))
                 /\ s.uvs # << >> =>
                       \E j \in DOMAIN s.uvs :
                         /\ s.uvs[j][1].n = QuadWidth(s) * s.uvs[j][1].d
                         /\ s.uvs[j][2].n = QuadHeight(s) * s.uvs[j][2].d
            ELSE \A j \in DOMAIN s.uvs :
                   InUnit(s.uvs[j][1]) /\ InUnit(s.uvs[j][2])

\* a surface list with a textured merged quad two blocks wide and a textured
\* per-element quad with a rotated UV rectangle
C2_Witness ==
    /\ spc = "surfaces"
    /\ \E i \in SurfaceIdx :
          /\ IsMergedQuad(surfaces[i])
          /\ surfaces[i].uvs # << >>
          /\ QuadWidth(surfaces[i]) >= 2
    /\ \E i \in SurfaceIdx :
          /\ ~IsMergedQuad(surfaces[i])
          /\ surfaces[i].uvs # << >>
          /\ surfaces[i].face = "up"

-----------------------------------------------------------------------------
(* The render job: Render3DManager.render_litematic_3d and                  *)
(* render_single_view, the renderer's contexts, the frame generators, the   *)
(* exporter's files, and the command that sends and deletes the animation.  *)

MaxFrames == 3

\* what Render3DCommand._parse_resolution hands to the manager:
\* <<window_size, native_textures, native_max_size>>
ResolutionChoices ==
    { << << >>, TRUE, << >> >>, << << >>, TRUE, <<64, 64>> >>,
      << << >>, FALSE, << >> >>, << <<1024, 768>>, FALSE, << >> >> }

JobRequests ==
    { [ kind |-> k, animation_type |-> a, frames |-> n, window_size |-> r[1],
        native_textures |-> r[2], native_max_size |-> r[3] ] :
        k \in {"animation"}, a \in {"rotation", "orbit", "zoom"}, n \in 1 .. MaxFrames,
        r \in ResolutionChoices }
    \cup
    { [ kind |-> k, animation_type |-> None, frames |-> 1, window_size |-> r[1],
        native_textures |-> r[2], native_max_size |-> r[3] ] :
        k \in {"single"}, r \in ResolutionChoices }

\* the structures a job is run on: empty, one block, two blocks in a row
JobShapes == { {}, { <<0, 0, 0>> }, { <<0, 0, 0>>, <<1, 0, 0>> } }

JobBlockChoices ==
    { Block("minecraft", "grass_block", NoProps),
      Block("minecraft", "hopper", [NoProps EXCEPT !["facing"] = "down"]) }

\* an exception object: RenderError carries its code, any other type none
RenderError(code) == [ type |-> "RenderError", code |-> code ]
OtherError(type) == [ type |-> type, code |-> -1 ]

\* a manager without the second handler
ManagerCatchRenderErrorOnly(exc) == exc

\* the handlers that end both manager methods:
\*   except RenderError: raise / except Exception as e: raise RenderError(code=2000)
ManagerCatch(exc) ==
    IF exc.type = "RenderError" THEN exc ELSE RenderError(2000)

\* PyVistaRenderer.close on a renderer whose plotter is pl: the contexts left
AfterClose(pl, ctx) == IF pl = "open" THEN ctx - 1 ELSE ctx

\* The frame generator is a local of the manager; when the call ends a
\* generator still suspended at its yield is finalised, which runs its
\* finally clause: renderer.close().  pl and ctx are the plotter and the
\* contexts at the moment the call ends.
EndOfCall(pl, ctx) ==
    IF gen = "suspended"
    THEN /\ plotter' = None
         /\ contexts' = AfterClose(pl, ctx)
         /\ gen' = "finished"
    ELSE /\ plotter' = pl
         /\ contexts' = ctx
         /\ gen' = gen

\* the manager call ends by raising exc through its handlers
Raises(exc, pl, ctx) ==
    /\ jpc' = "raised"
    /\ result' = [ kind |-> "error", path |-> None,
                   type |-> ManagerCatch(exc).type, code |-> ManagerCatch(exc).code ]
    /\ EndOfCall(pl, ctx)

\* model_data['dimensions'] of get_model_data: max - min + 1, which is -inf
\* when no block was seen
Dimension(lo, hi) == IF lo = Inf \/ hi = NegInf THEN NegInf ELSE hi - lo + 1

Dimensions(b) ==
    [ width  |-> Dimension(b.min_x, b.max_x),
      height |-> Dimension(b.min_y, b.max_y),
      length |-> Dimension(b.min_z, b.max_z) ]

IsInfinite(x) == x = Inf \/ x = NegInf

\* TextureManager.texture_size of the default resource pack; the native
\* size read from the first texture of that pack is the same
TextureSize == 16

\* Render3DManager._calculate_native_window_size on finite dimensions;
\* int(projected_height * texture_size) = (2 h + max(w, l)) * size div 2
_calculate_native_window_size(dimensions, texture_size, max_size) ==
    LET width_blocks  == Max(1, dimensions.width)
        length_blocks == Max(1, dimensions.length)
        height_blocks == Max(1, dimensions.height)
        projected_width == width_blocks + length_blocks
        width  == projected_width * texture_size
        height == ((2 * height_blocks + Max(width_blocks, length_blocks)) * texture_size) \div 2
        cap == IF max_size # << >> THEN max_size ELSE <<16384, 16384>>
        max_width  == Max(800, cap[1])
        max_height == Max(600, cap[2])
    IN  << Max(800, Min(width, max_width)), Max(600, Min(height, max_height)) >>

JobInit ==
    /\ \E S \in JobShapes : \E f \in [ S -> JobBlockChoices ] : schematic = Region(S, f)
    /\ blocks = EmptyBlocks
    /\ bounds = ZeroBounds
    /\ surfaces = << >>
    /\ spc = "job"
    /\ mesh = NoMesh
    /\ req \in JobRequests
    /\ jpc = "start"
    /\ window_size = req.window_size
    /\ plotter = None
    /\ contexts = 0
    /\ gen = "none"
    /\ frame_i = 0
    /\ files = NoFiles
    /\ report = NoReport
    /\ result = NoResult
    /\ attempted = {}
    /\ failures = {}
    /\ CmdIdle
    /\ CamIdle
    /\ FnIdle
    /\ ConIdle
    /\ RndIdle
    /\ StrIdle

\* Schematic.load(file_path): the decoder delivers the structure or raises
JobLoad ==
    /\ jpc = "start"
    /\ attempted' = attempted \cup {"load"}
    /\ \/ /\ jpc' = "loaded"
          /\ UNCHANGED << failures, result, plotter, contexts, gen >>
       \/ /\ failures' = failures \cup {"load"}
          /\ Raises(OtherError("ValueError"), plotter, contexts)
    /\ UNCHANGED << rndVars, strVars, conVars, cmdVars, camVars, fnVars, surfaceVars, req, window_size, frame_i, files, report >>

\* ModelBuilder.build_from_litematic and the check of its result; it reports
\* False only when the traversal raised
JobBuildModel ==
    /\ jpc = "loaded"
    /\ attempted' = attempted \cup {"model"}
    /\ \/ /\ blocks' = BuiltBlocks(schematic)
          /\ bounds' = BuiltBounds(schematic)
          /\ jpc' = "model"
          /\ UNCHANGED << failures, result, plotter, contexts, gen >>
       \/ /\ failures' = failures \cup {"model"}
          /\ Raises(RenderError(2001), plotter, contexts)
          /\ UNCHANGED << blocks, bounds >>
    /\ UNCHANGED << rndVars, strVars, conVars, cmdVars, camVars, fnVars, mesh, schematic, surfaces, spc, req, window_size, frame_i, files, report >>

\* SurfaceBuilder(...).build_surfaces(), which may raise while it reads the
\* resource tree
JobBuildSurfaces ==
    /\ jpc = "model"
    /\ attempted' = attempted \cup {"surfaces"}
    /\ \/ /\ surfaces' = build_surfaces(blocks)
          /\ jpc' = "surfaces"
          /\ UNCHANGED << failures, result, plotter, contexts, gen >>
       \/ /\ failures' = failures \cup {"surfaces"}
          /\ Raises(OtherError("OSError"), plotter, contexts)
          /\ UNCHANGED surfaces
    /\ UNCHANGED << rndVars, strVars, conVars, cmdVars, camVars, fnVars, mesh, schematic, blocks, bounds, spc, req, window_size, frame_i, files, report >>

\* the native window size: int() of an infinite dimension raises OverflowError
JobWindowSize ==
    /\ jpc = "surfaces"
    /\ IF window_size = << >> /\ req.native_textures
       THEN /\ attempted' = attempted \cup {"window"}
            /\ IF \E d \in {"width", "height", "length"} :
                     IsInfinite(Dimensions(bounds)[d])
               THEN /\ failures' = failures \cup {"window"}
                    /\ Raises(OtherError("OverflowError"), plotter, contexts)
                    /\ UNCHANGED window_size
               ELSE /\ window_size' = _calculate_native_window_size(
                                         Dimensions(bounds), TextureSize,
                                         req.native_max_size)
                    /\ jpc' = "sized"
                    /\ UNCHANGED << failures, result, plotter, contexts, gen >>
       ELSE /\ jpc' = "sized"
            /\ UNCHANGED << attempted, failures, result, plotter, contexts, gen,
                            window_size >>
    /\ UNCHANGED << rndVars, strVars, conVars, cmdVars, camVars, fnVars, surfaceVars, req, frame_i, files, report >>

\* PyVistaRenderer.create_mesh and the check of its result: False without
\* surfaces, and False when the mesh library raises
JobCreateMesh ==
    /\ jpc = "sized"
    /\ attempted' = attempted \cup {"mesh"}
    /\ \/ /\ surfaces # << >>
          /\ jpc' = "meshed"
          /\ UNCHANGED << failures, result, plotter, contexts, gen >>
       \/ /\ failures' = failures \cup {"mesh"}
          /\ Raises(RenderError(2002), plotter, contexts)
    /\ UNCHANGED << rndVars, strVars, conVars, cmdVars, camVars, fnVars, surfaceVars, req, window_size, frame_i, files, report >>

WithFile(path, k, c) ==
    [ p \in DOMAIN files \cup {path} |->
        IF p = path THEN [ frames |-> k, complete |-> c ] ELSE files[p] ]

WithoutFile(path) == [ p \in DOMAIN files \ {path} |-> files[p] ]

\* how a render_scene call may go: it returns an image, it raises before a
\* context exists, or it raises once a context exists
RenderOutcomes == {"ok", "no_context", "context"}

\* render_scene(reuse_plotter=True): _get_or_create_plotter returns the
\* renderer's plotter or creates one and stores it in the renderer
AfterRender(outcome) ==
    IF plotter = "open" \/ outcome = "no_context"
    THEN [ plotter |-> plotter, contexts |-> contexts ]
    ELSE [ plotter |-> "open", contexts |-> contexts + 1 ]

\* export_gif_with_temp_stream up to the first frame: the generator object
\* and the temporary file are created
StreamOpen ==
    /\ jpc = "meshed"
    /\ req.kind = "animation"
    /\ attempted' = attempted \cup {"stream"}
    /\ gen' = "created"
    /\ frame_i' = 0
    /\ \/ /\ files' = WithFile("tmp1.gif", 0, FALSE)
          /\ jpc' = "streaming"
          /\ UNCHANGED << failures, report >>
       \/ /\ failures' = failures \cup {"stream_temp"}
          /\ report' = [ op |-> "export_gif_with_temp_stream", ok |-> FALSE, path |-> None ]
          /\ jpc' = "fallback"
          /\ UNCHANGED files
    /\ UNCHANGED << rndVars, strVars, conVars, cmdVars, camVars, fnVars, surfaceVars, req, window_size, plotter, contexts, result >>

\* The encoder (imageio's writer, or PIL's save when imageio cannot be
\* imported) pulls one frame from iter_*_frames and appends it.  A frame
\* that fails makes the generator raise, its finally clause closes the
\* renderer, and export_gif_stream reports False; an encoder that fails
\* leaves the generator suspended at its yield.
StreamFrame ==
    /\ jpc = "streaming"
    /\ frame_i < req.frames
    /\ \E outcome \in RenderOutcomes :
         LET r == AfterRender(outcome)
         IN  IF outcome # "ok"
             THEN /\ plotter' = None
                  /\ contexts' = AfterClose(r.plotter, r.contexts)
                  /\ gen' = "finished"
                  /\ failures' = failures \cup {"stream_frame"}
                  /\ report' = [ op |-> "export_gif_stream", ok |-> FALSE,
                                 path |-> "tmp1.gif" ]
                  /\ jpc' = "stream_failed"
                  /\ UNCHANGED << files, frame_i >>
             ELSE /\ plotter' = r.plotter
                  /\ contexts' = r.contexts
                  /\ gen' = "suspended"
                  /\ \/ /\ files' = WithFile("tmp1.gif", frame_i + 1, FALSE)
                        /\ frame_i' = frame_i + 1
                        /\ UNCHANGED << failures, report, jpc >>
                     \/ /\ failures' = failures \cup {"stream_encode"}
                        /\ report' = [ op |-> "export_gif_stream", ok |-> FALSE,
                                       path |-> "tmp1.gif" ]
                        /\ jpc' = "stream_failed"
                        /\ UNCHANGED << files, frame_i >>
    /\ UNCHANGED << rndVars, strVars, conVars, cmdVars, camVars, fnVars, surfaceVars, req, window_size, result, attempted >>

\* The generator is exhausted: its finally clause closes the renderer, the
\* encoder finishes the file and the temporary path is returned.
StreamEnd ==
    /\ jpc = "streaming"
    /\ frame_i = req.frames
    /\ plotter' = None
    /\ contexts' = AfterClose(plotter, contexts)
    /\ gen' = "finished"
    /\ \/ /\ files' = WithFile("tmp1.gif", frame_i, TRUE)
          /\ report' = [ op |-> "export_gif_with_temp_stream", ok |-> TRUE,
                         path |-> "tmp1.gif" ]
          /\ jpc' = "exported"
          /\ UNCHANGED failures
       \/ /\ failures' = failures \cup {"stream_encode"}
          /\ report' = [ op |-> "export_gif_stream", ok |-> FALSE, path |-> "tmp1.gif" ]
          /\ jpc' = "stream_failed"
          /\ UNCHANGED files
    /\ UNCHANGED << rndVars, strVars, conVars, cmdVars, camVars, fnVars, surfaceVars, req, window_size, frame_i, result, attempted >>

\* export_gif_with_temp_stream after export_gif_stream reported False: the
\* temporary file is removed and None is returned
StreamCleanup ==
    /\ jpc = "stream_failed"
    /\ files' = WithoutFile("tmp1.gif")
    /\ report' = [ op |-> "export_gif_with_temp_stream", ok |-> FALSE, path |-> "tmp1.gif" ]
    /\ jpc' = "fallback"
    /\ frame_i' = 0
    /\ UNCHANGED << rndVars, strVars, conVars, cmdVars, camVars, fnVars, surfaceVars, req, window_size, plotter, contexts, gen, result,
                    attempted, failures >>

\* One frame of generate_*_frames, the buffered pass run after the streaming
\* export returned None.  A frame that fails ends the pass with False, the
\* finally clause closes the renderer and the manager raises 2003.
FallbackFrame ==
    /\ jpc = "fallback"
    /\ frame_i < req.frames
    /\ attempted' = attempted \cup {"fallback"}
    /\ \E outcome \in RenderOutcomes :
         LET r == AfterRender(outcome)
         IN  IF outcome = "ok"
             THEN /\ plotter' = r.plotter
                  /\ contexts' = r.contexts
                  /\ frame_i' = frame_i + 1
                  /\ UNCHANGED << jpc, result, gen, failures >>
             ELSE /\ failures' = failures \cup {"fallback_frame"}
                  /\ UNCHANGED frame_i
                  /\ Raises(RenderError(2003), None, AfterClose(r.plotter, r.contexts))
    /\ UNCHANGED << rndVars, strVars, conVars, cmdVars, camVars, fnVars, surfaceVars, req, window_size, files, report >>

\* generate_*_frames rendered every frame: the renderer is closed and True
\* is returned
FallbackEnd ==
    /\ jpc = "fallback"
    /\ frame_i = req.frames
    /\ attempted' = attempted \cup {"fallback"}
    /\ plotter' = None
    /\ contexts' = AfterClose(plotter, contexts)
    /\ jpc' = "buffered"
    /\ UNCHANGED << rndVars, strVars, conVars, cmdVars, camVars, fnVars, surfaceVars, req, window_size, gen, frame_i, files, report, result,
                    failures >>

\* export_gif_with_temp(frames_list): the temporary file is created and
\* export_gif writes the collected frames; export_gif reports False for an
\* empty list and when the encoder raises
FallbackExport ==
    /\ jpc = "buffered"
    /\ \/ /\ failures' = failures \cup {"fallback_temp"}
          /\ report' = [ op |-> "export_gif_with_temp", ok |-> FALSE, path |-> None ]
          /\ Raises(RenderError(2004), plotter, contexts)
          /\ UNCHANGED files
       \/ /\ frame_i > 0
          /\ files' = WithFile("tmp2.gif", frame_i, TRUE)
          /\ report' = [ op |-> "export_gif_with_temp", ok |-> TRUE, path |-> "tmp2.gif" ]
          /\ jpc' = "exported"
          /\ UNCHANGED << failures, result, plotter, contexts, gen >>
       \/ /\ failures' = failures \cup {"fallback_export"}
          /\ files' = WithFile("tmp2.gif", 0, FALSE)
          /\ report' = [ op |-> "export_gif", ok |-> FALSE, path |-> "tmp2.gif" ]
          /\ jpc' = "export_failed"
          /\ UNCHANGED << result, plotter, contexts, gen >>
    /\ UNCHANGED << rndVars, strVars, conVars, cmdVars, camVars, fnVars, surfaceVars, req, window_size, frame_i, attempted >>

\* export_gif_with_temp after export_gif reported False: the temporary file
\* is removed, None is returned and the manager raises
FallbackCleanup ==
    /\ jpc = "export_failed"
    /\ files' = WithoutFile("tmp2.gif")
    /\ report' = [ op |-> "export_gif_with_temp", ok |-> FALSE, path |-> "tmp2.gif" ]
    /\ Raises(RenderError(2004), plotter, contexts)
    /\ UNCHANGED << rndVars, strVars, conVars, cmdVars, camVars, fnVars, surfaceVars, req, window_size, frame_i, attempted, failures >>

\* return temp_gif_path
JobReturn ==
    /\ jpc = "exported"
    /\ result' = [ kind |-> "path", path |-> report.path, type |-> None, code |-> -1 ]
    /\ jpc' = "returned"
    /\ EndOfCall(plotter, contexts)
    /\ UNCHANGED << rndVars, strVars, conVars, cmdVars, camVars, fnVars, surfaceVars, req, window_size, frame_i, files, report, attempted,
                    failures >>

\* render_single_view, step 5: render_scene without reuse creates a plotter
\* of its own and closes it after the screenshot; when anything between the
\* two raises, the handler of render_scene returns None
SingleRender ==
    /\ jpc = "meshed"
    /\ req.kind = "single"
    /\ attempted' = attempted \cup {"render"}
    /\ \E outcome \in RenderOutcomes :
         IF outcome = "ok"
         THEN /\ jpc' = "rendered"
              /\ UNCHANGED << failures, result, plotter, contexts, gen >>
         ELSE /\ failures' = failures \cup {"render"}
              /\ Raises(RenderError(2005), plotter,
                        IF outcome = "context" THEN contexts + 1 ELSE contexts)
    /\ UNCHANGED << rndVars, strVars, conVars, cmdVars, camVars, fnVars, surfaceVars, req, window_size, frame_i, files, report >>

\* render_single_view, step 6: NamedTemporaryFile(delete=False), image.save
SingleSave ==
    /\ jpc = "rendered"
    /\ attempted' = attempted \cup {"save"}
    /\ \/ /\ failures' = failures \cup {"save_temp"}
          /\ Raises(OtherError("OSError"), plotter, contexts)
          /\ UNCHANGED files
       \/ /\ files' = WithFile("tmp.png", 1, TRUE)
          /\ result' = [ kind |-> "path", path |-> "tmp.png", type |-> None, code |-> -1 ]
          /\ jpc' = "returned"
          /\ UNCHANGED << failures, plotter, contexts, gen >>
       \/ /\ failures' = failures \cup {"save"}
          /\ files' = WithFile("tmp.png", 0, FALSE)
          /\ Raises(OtherError("OSError"), plotter, contexts)
    /\ UNCHANGED << rndVars, strVars, conVars, cmdVars, camVars, fnVars, surfaceVars, req, window_size, frame_i, report >>

\* Render3DCommand.execute after the manager returned gif_path: the message
\* is built and sent; event.send may raise, which the last handler reports
CmdSend ==
    /\ jpc = "returned"
    /\ req.kind = "animation"
    /\ \/ /\ jpc' = "sent"
          /\ UNCHANGED failures
       \/ /\ failures' = failures \cup {"send"}
          /\ jpc' = "cmd_error"
    /\ UNCHANGED << rndVars, strVars, conVars, cmdVars, camVars, fnVars, surfaceVars, req, window_size, plotter, contexts, gen, frame_i,
                    files, report, result, attempted >>

\* the caption is yielded and the temporary file is removed if it exists
CmdFinish ==
    /\ jpc = "sent"
    /\ files' = WithoutFile(result.path)
    /\ jpc' = "cmd_done"
    /\ UNCHANGED << rndVars, strVars, conVars, cmdVars, camVars, fnVars, surfaceVars, req, window_size, plotter, contexts, gen, frame_i,
                    report, result, attempted, failures >>

\* the handlers of execute report the error the manager raised
CmdReportError ==
    /\ jpc = "raised"
    /\ req.kind = "animation"
    /\ jpc' = "cmd_error"
    /\ UNCHANGED << rndVars, strVars, conVars, cmdVars, camVars, fnVars, surfaceVars, req, window_size, plotter, contexts, gen, frame_i,
                    files, report, result, attempted, failures >>

JobNext ==
    \/ JobLoad \/ JobBuildModel \/ JobBuildSurfaces \/ JobWindowSize \/ JobCreateMesh
    \/ StreamOpen \/ StreamFrame \/ StreamEnd \/ StreamCleanup
    \/ FallbackFrame \/ FallbackEnd \/ FallbackExport \/ FallbackCleanup \/ JobReturn
    \/ SingleRender \/ SingleSave
    \/ CmdSend \/ CmdFinish \/ CmdReportError

SpecJob == JobInit /\ [][JobNext]_vars

-----------------------------------------------------------------------------
(* Properties of the render job *)

\* the positions at which the manager call has ended
CallEnded == jpc \in {"returned", "raised", "sent", "cmd_done", "cmd_error"}

\* The failures of a stage: the model build, the mesh construction, the
\* render of a frame in either pass, and the export once the streaming and
\* the buffered attempt have both failed.
StageFailures ==
    {"model", "mesh", "stream_frame", "fallback_frame", "fallback_export",
     "fallback_temp"}

\* C3 as claimed: a failure of any stage (model build, mesh construction,
\* the render of a frame, export) is never followed by a returned animation.
C3_AnyStageFailureAborts ==
    (req.kind = "animation" /\ result.kind = "path") => failures \cap StageFailures = {}

\* C4 as claimed: when a render has ended, on the animation path and on the
\* single-view path alike, no render context it created is still open.
C4_ContextClosedOnEveryExit ==
    CallEnded => contexts = 0 /\ plotter = None

\* C5 as claimed: once the command has finished, with or without an error,
\* no temporary animation file is left, and a single-view render that raised
\* leaves no temporary image.
C5_TempFilesDeletedOnEveryExit ==
    /\ jpc \in {"cmd_done", "cmd_error"} => DOMAIN files = {}
    /\ (req.kind = "single" /\ jpc = "raised") => DOMAIN files = {}

\* C6 as claimed: when an export operation has reported failure, no file
\* exists at the path it was writing to.
C6_NoFileAfterFailedExport ==
    (~report.ok /\ report.path # None) => report.path \notin DOMAIN files

\* C7 as claimed: once the voxel model of a structure without non-air
\* voxels has been built, the job has ended with the model-build error 2001
\* and surface extraction, window sizing and mesh construction were never
\* entered.
C7_EmptyModelFails ==
    (NonAir(schematic) = {} /\ "model" \in attempted) =>
      /\ jpc \in {"raised", "cmd_error"}
      /\ result.kind = "error"
      /\ result.code = 2001
      /\ attempted \cap {"surfaces", "window", "mesh"} = {}

\* C9: a manager call that has ended either returned a path or raised a
\* RenderError with a numeric code; no other exception type reaches the
\* caller, whatever was raised inside.
C9_OnlyRenderErrorEscapes ==
    CallEnded =>
      \/ result.kind = "path" /\ result.path \in {"tmp1.gif", "tmp2.gif", "tmp.png"}
      \/ /\ result.kind = "error"
         /\ result.type = "RenderError"
         /\ result.code \in 2000 .. 2005

\* a call that ended after a stage raised an exception other than RenderError
C9_Witness ==
    /\ jpc = "raised"
    /\ result.code = 2000
    /\ failures \cap {"load", "surfaces", "window", "save", "save_temp"} # {}

-----------------------------------------------------------------------------
(* Render3DCommand.execute: validation of the arguments, the file lookup    *)
(* and the call of the manager.  The resolution argument is a text, held as *)
(* its sequence of tokens: words, numbers (runs of digits), separators and  *)
(* blanks.                                                                  *)

Word(w) == [ t |-> "word", w |-> w, n |-> 0 ]
Num(n) == [ t |-> "num", w |-> "", n |-> n ]
Sep(c) == [ t |-> "sep", w |-> c, n |-> 0 ]
Blank == [ t |-> "blank", w |-> " ", n |-> 0 ]

\* the argument None in place of a text
NoText == << [ t |-> "none", w |-> "", n |-> 0 ] >>

\* str.lower() on the words and separators that occur
LowerWord(w) ==
    CASE w = "NATIVE"  -> "native"
      [] w = "Native"  -> "native"
      [] w = "DEFAULT" -> "default"
      [] w = "X"       -> "x"
      [] OTHER         -> w

Lower(text) == [ i \in DOMAIN text |-> [ text[i] EXCEPT !.w = LowerWord(@) ] ]

\* str.strip(): blanks at both ends are dropped
RECURSIVE Strip(_)
Strip(text) ==
    IF text = << >> THEN text
    ELSE IF Head(text) = Blank THEN Strip(Tail(text))
    ELSE IF text[Len(text)] = Blank THEN Strip(SubSeq(text, 1, Len(text) - 1))
    ELSE text

\* the alternatives of the two patterns; the Chinese words and the
\* multiplication sign are written here in ASCII
NativeWords == {"native", "yuansheng", "yuansheng fenbianlv", "auto", "zidong"}
CapSeps == {"@", ":"}
SizeSeps == {"x", "times", "*", "_", ","}

IsSizeSep(tok) == tok.t \in {"sep", "word"} /\ tok.w \in SizeSeps

\* \s*[xX...]\s* : blanks may stand only next to the size separator
BlanksOnlyAtSizeSep(text) ==
    \A i \in DOMAIN text :
      text[i] = Blank =>
        \/ i > 1 /\ IsSizeSep(text[i - 1])
        \/ i < Len(text) /\ IsSizeSep(text[i + 1])

NoBlanks(text) == SelectSeq(text, LAMBDA tok : tok # Blank)

\* ^(\d+)\s*[xX...]\s*(\d+)$ on a whole text or on the tail of the cap
MatchesSize(text) ==
    LET t == NoBlanks(text)
    IN  /\ BlanksOnlyAtSizeSep(text)
        /\ Len(t) = 3
        /\ t[1].t = "num" /\ IsSizeSep(t[2]) /\ t[3].t = "num"

\* ^(native|...)(?:[@:](\d+)(?:\s*[xX...]\s*(\d+))?)?$ : 1 for the bare
\* word, 2 with one number, 3 with two numbers, 0 for no match
NativeMatch(text) ==
    IF text = << >> \/ text[1].t # "word" \/ text[1].w \notin NativeWords THEN 0
    ELSE IF Len(text) = 1 THEN 1
    ELSE IF Len(text) < 3 \/ text[2].t # "sep" \/ text[2].w \notin CapSeps THEN 0
    ELSE IF Len(text) = 3 THEN IF text[3].t = "num" THEN 2 ELSE 0
    ELSE IF MatchesSize(SubSeq(text, 3, Len(text))) THEN 3
    ELSE 0

ParseError(message) == [ ok |-> FALSE, message |-> message, window_size |-> << >>,
                         native_textures |-> FALSE, native_max_size |-> << >> ]

Parsed(ws, native, cap) == [ ok |-> TRUE, message |-> None, window_size |-> ws,
                             native_textures |-> native, native_max_size |-> cap ]

OutOfSize(w, h) == w < 64 \/ h < 64 \/ w > 32768 \/ h > 32768

\* Render3DCommand._parse_resolution
_parse_resolution(resolution) ==
    IF resolution = NoText THEN Parsed(<< >>, TRUE, << >>)
    ELSE
      LET value == Lower(Strip(resolution))
          caps  == NoBlanks(value)
      IN  IF value = << >> THEN Parsed(<< >>, TRUE, << >>)
          ELSE IF NativeMatch(value) = 1 THEN Parsed(<< >>, TRUE, << >>)
          ELSE IF NativeMatch(value) \in {2, 3}
          THEN LET max_width  == caps[3].n
                   max_height == IF NativeMatch(value) = 3 THEN caps[5].n ELSE max_width
               IN  IF OutOfSize(max_width, max_height)
                   THEN ParseError("cap out of range")
                   ELSE Parsed(<< >>, TRUE, <<max_width, max_height>>)
          ELSE IF value \in { << Word("default") >>, << Word("moren") >> }
          THEN Parsed(<< >>, FALSE, << >>)
          ELSE IF ~MatchesSize(value) THEN ParseError("format")
          ELSE IF OutOfSize(caps[1].n, caps[3].n) THEN ParseError("size out of range")
          ELSE Parsed(<<caps[1].n, caps[3].n>>, FALSE, << >>)

\* The resolution texts a user may type, each with the window size it
\* spells out (<< >> when it spells none).
SizeText(w, sep, h) == [ text |-> << Num(w), sep, Num(h) >>, size |-> <<w, h>> ]
OtherText(text) == [ text |-> text, size |-> << >> ]

ResolutionTexts ==
    { SizeText(w, Sep("x"), h) :
        w \in {63, 64, 1024, 32768, 32769}, h \in {63, 64, 32768, 32769} }
    \cup
    { [ text |-> << Blank, Num(1024), Blank, Word("X"), Blank, Num(768), Blank >>,
        size |-> <<1024, 768>> ],
      [ text |-> << Num(32769), Sep("*"), Num(768) >>, size |-> <<32769, 768>> ],
      OtherText(NoText), OtherText(<< >>), OtherText(<< Blank >>),
      OtherText(<< Word("native") >>), OtherText(<< Word("NATIVE") >>),
      OtherText(<< Word("default") >>), OtherText(<< Word("large") >>),
      OtherText(<< Num(1024) >>),
      OtherText(<< Word("native"), Sep("@"), Num(12000) >>),
      OtherText(<< Word("native"), Sep("@"), Num(63) >>),
      OtherText(<< Word("native"), Sep(":"), Num(4096), Sep("x"), Num(32769) >>),
      OtherText(<< Word("native"), Blank, Sep("@"), Num(4096) >>) }

CommandRequests ==
    [ names          : { <<"", "">>, <<"houses", "">>, <<"houses", "tower">> },
      animation_type : {"rotation", "orbit", "zoom", "spin"},
      frames         : {0, 1, 120, 121, 200},
      duration       : {49, 50, 500, 501},
      elevation      : {-1, 0, 90, 91, 120},
      resolution     : ResolutionTexts ]

\* a check of the lower limit only
FramesRejectedBelowOnly(frames) == frames < 1

\* if frames < 1 or frames > 120
FramesRejected(frames) == frames < 1 \/ frames > 120

CommandInit ==
    /\ creq \in CommandRequests
    /\ cpc = "received"
    /\ reply = None
    /\ call = NoCall
    /\ lookups = 0
    /\ schematic = Region({}, << >>)
    /\ blocks = EmptyBlocks
    /\ bounds = ZeroBounds
    /\ surfaces = << >>
    /\ spc = "command"
    /\ mesh = NoMesh
    /\ JobIdle
    /\ CamIdle
    /\ FnIdle
    /\ ConIdle
    /\ RndIdle
    /\ StrIdle

\* execute, lines 53-87: the checks in the order of the code, each answering
\* with its message and returning; a request that passes them all is told
\* to wait
CmdValidate ==
    /\ cpc = "received"
    /\ LET parsed == _parse_resolution(creq.resolution.text)
           verdict ==
             IF creq.names[1] = "" \/ creq.names[2] = "" THEN "help"
             ELSE IF creq.animation_type \notin {"rotation", "orbit", "zoom"}
             THEN "bad animation type"
             ELSE IF FramesRejected(creq.frames) THEN "bad frames"
             ELSE IF creq.duration < 50 \/ creq.duration > 500 THEN "bad duration"
             ELSE IF creq.elevation < 0 \/ creq.elevation > 90 THEN "bad elevation"
             ELSE IF ~parsed.ok THEN parsed.message
             ELSE "please wait"
       IN  /\ reply' = verdict
           /\ cpc' = IF verdict = "please wait" THEN "validated" ELSE "rejected"
    /\ UNCHANGED << rndVars, strVars, conVars, creq, call, lookups, surfaceVars, jobVars, camVars, fnVars >>

\* file_manager.get_litematic_file_async: the path, or FileNotFoundError /
\* CategoryNotFoundError, which the handlers of execute report
CmdGetFile ==
    /\ cpc = "validated"
    /\ lookups' = lookups + 1
    /\ \/ /\ cpc' = "located"
          /\ UNCHANGED reply
       \/ /\ cpc' = "failed"
          /\ reply' = "not found"
    /\ UNCHANGED << rndVars, strVars, conVars, creq, call, surfaceVars, jobVars, camVars, fnVars >>

\* render_3d_manager.render_litematic_3d_async is called with the validated
\* arguments and the parsed resolution
CmdInvokeManager ==
    /\ cpc = "located"
    /\ LET parsed == _parse_resolution(creq.resolution.text)
       IN  call' = [ animation_type  |-> creq.animation_type,
                     frames          |-> creq.frames,
                     duration        |-> creq.duration,
                     elevation       |-> creq.elevation,
                     optimize        |-> TRUE,
                     window_size     |-> parsed.window_size,
                     native_textures |-> parsed.native_textures,
                     native_max_size |-> parsed.native_max_size ]
    /\ cpc' = "invoked"
    /\ UNCHANGED << rndVars, strVars, conVars, creq, reply, lookups, surfaceVars, jobVars, camVars, fnVars >>

CommandNext == CmdValidate \/ CmdGetFile \/ CmdInvokeManager

SpecCommand == CommandInit /\ [][CommandNext]_vars

\* the request names a value outside the validated ranges
OutOfRange(r) ==
    \/ r.frames < 1 \/ r.frames > 120
    \/ r.duration < 50 \/ r.duration > 500
    \/ r.elevation < 0 \/ r.elevation > 90
    \/ r.animation_type \notin {"rotation", "orbit", "zoom"}
    \/ /\ r.resolution.size # << >>
       /\ \E k \in 1 .. 2 : r.resolution.size[k] < 64 \/ r.resolution.size[k] > 32768

\* C8: a request with frames outside [1,120], duration outside [50,500],
\* elevation outside [0,90], an unknown animation type or an explicit window
\* size outside [64,32768] is rejected before the file is looked up and
\* before the manager is called; a call that is made carries the window
\* size the text spelled.
C8_ValidatedBeforeRender ==
    /\ OutOfRange(creq) =>
          /\ cpc \in {"received", "rejected"}
          /\ call = NoCall
          /\ lookups = 0
    /\ call # NoCall =>
          /\ ~OutOfRange(creq)
          /\ creq.resolution.size # << >> => call.window_size = creq.resolution.size

\* a request rejected for its elevation of 120 alone
C8_Witness ==
    /\ cpc = "rejected"
    /\ reply = "bad elevation"
    /\ creq.elevation = 120
    /\ creq.frames = 120
    /\ creq.resolution.size = <<32768, 32768>>

-----------------------------------------------------------------------------
(* AnimationGenerator: the camera poses of iter_rotation_frames,            *)
(* iter_orbit_frames and iter_zoom_frames.  Angles are tenths of a degree   *)
(* and multiples of 7.5 degrees; sines, cosines, distance factors and       *)
(* coordinates are thousandths.                                             *)

\* round(1000 * sin(k * 7.5 degrees)) for k = 0 .. 12
SinTable == << 0, 131, 259, 383, 500, 609, 707, 793, 866, 924, 966, 991, 1000 >>

\* math.sin(math.radians(angle)) in thousandths
Sin(angle) ==
    LET q == (angle % 3600) \div 75
    IN  IF q <= 12 THEN SinTable[q + 1]
        ELSE IF q <= 24 THEN SinTable[24 - q + 1]
        ELSE IF q <= 36 THEN 0 - SinTable[q - 24 + 1]
        ELSE 0 - SinTable[48 - q + 1]

\* math.cos(math.radians(angle)) in thousandths
Cos(angle) == Sin(angle + 900)

\* the product of two thousandths, rounded to the nearest thousandth
Times(a, b) ==
    LET p == a * b
    IN  IF p >= 0 THEN (p + 500) \div 1000 ELSE 0 - ((500 - p) \div 1000)

\* centre and largest dimension of the bounding box, lines 29-37
Center(b) ==
    << (b.min_x + b.max_x) * 500, (b.min_y + b.max_y) * 500, (b.min_z + b.max_z) * 500 >>

MaxSize(b) ==
    Max(b.max_x - b.min_x + 1, Max(b.max_y - b.min_y + 1, b.max_z - b.min_z + 1))

\* camera_position = [(cam_x, cam_y, cam_z), (center_x, center_y, center_z), (0, 1, 0)]
CameraPosition(eye, b) == [ eye |-> eye, focus |-> Center(b), up |-> <<0, 1, 0>> ]

\* iter_rotation_frames, the pose of loop index i
RotationPose(b, n_frames, elevation, distance_factor, i) ==
    LET c == Center(b)
        distance == MaxSize(b) * distance_factor
        angle_increment == 3600 \div n_frames
        angle == i * angle_increment
    IN  CameraPosition(<< c[1] + Times(distance, Cos(angle)),
                          c[2] + Times(distance, Sin(elevation)),
                          c[3] + Times(distance, Sin(angle)) >>, b)

\* iter_orbit_frames, the pose of loop index i
OrbitPose(b, n_frames, start_elevation, end_elevation, distance_factor, i) ==
    LET c == Center(b)
        distance == MaxSize(b) * distance_factor
        angle_increment == 3600 \div n_frames
        elevation_increment == (end_elevation - start_elevation) \div n_frames
        angle == i * angle_increment
        elevation == start_elevation + i * elevation_increment
    IN  CameraPosition(<< c[1] + Times(Times(distance, Cos(angle)), Cos(elevation)),
                          c[2] + Times(distance, Sin(elevation)),
                          c[3] + Times(Times(distance, Sin(angle)), Cos(elevation)) >>, b)

\* (end_factor - start_factor) / n_frames, a negative quotient without remainder
FactorIncrement(start_factor, end_factor, n_frames) ==
    0 - ((start_factor - end_factor) \div n_frames)

\* iter_zoom_frames, the pose of loop index i
ZoomPose(b, n_frames, start_factor, end_factor, i) ==
    LET c == Center(b)
        factor == start_factor + i * FactorIncrement(start_factor, end_factor, n_frames)
        distance == MaxSize(b) * factor
    IN  CameraPosition(<< c[1] + Times(Times(distance, Cos(450)), Cos(300)),
                          c[2] + Times(distance, Sin(300)),
                          c[3] + Times(Times(distance, Sin(450)), Cos(300)) >>, b)

\* the iterator the manager creates for animation_type (lines 160-184):
\* the elevation of the request reaches the rotation only
FramePose(in, i) ==
    CASE in.animation_type = "orbit" -> OrbitPose(in.bounds, in.frames, 0, 900, 2000, i)
      [] in.animation_type = "zoom"  -> ZoomPose(in.bounds, in.frames, 3000, 1500, i)
      [] OTHER -> RotationPose(in.bounds, in.frames, in.elevation, 2000, i)

\* frame counts for which every angle is a multiple of 7.5 degrees and every
\* factor a whole thousandth
FrameCounts == {1, 2, 3, 4, 6, 12}

Box(sx, sy, sz) ==
    [ min_x |-> 0, max_x |-> sx - 1, min_y |-> 0, max_y |-> sy - 1,
      min_z |-> 0, max_z |-> sz - 1 ]

\* variant "iter" is the lazy iter_*_frames generator, "generate" the buffered
\* generate_*_frames, which runs the same loop and appends to self.frames
CameraInputs ==
    [ animation_type : {"rotation", "orbit", "zoom"},
      variant        : {"iter", "generate"},
      frames         : FrameCounts,
      elevation      : {0, 300, 450, 900},
      bounds         : { Box(1, 1, 1), Box(2, 1, 1), Box(1, 3, 2) } ]

CameraInit ==
    /\ cam_in \in CameraInputs
    /\ cam_pc = "running"
    /\ cam_i = 0
    /\ poses = << >>
    /\ schematic = Region({}, << >>)
    /\ blocks = EmptyBlocks
    /\ bounds = cam_in.bounds
    /\ surfaces = << >>
    /\ spc = "camera"
    /\ mesh = NoMesh
    /\ JobIdle
    /\ CmdIdle
    /\ FnIdle
    /\ ConIdle
    /\ RndIdle
    /\ StrIdle

\* i in range(n_frames), with the loop overrunning by one as the variant
InRangeOverrun(i, n_frames) == i <= n_frames

\* i in range(n_frames)
InRange(i, n_frames) == i < n_frames

\* one turn of the loop: the pose of index i is handed to render_scene and
\* the frame is yielded
CamNextPose ==
    /\ cam_pc = "running"
    /\ InRange(cam_i, cam_in.frames)
    /\ poses' = Append(poses, FramePose(cam_in, cam_i))
    /\ cam_i' = cam_i + 1
    /\ UNCHANGED << rndVars, strVars, conVars, cam_in, cam_pc, surfaceVars, jobVars, cmdVars, fnVars >>

\* range(n_frames) is used up: the generator ends, generate_* returns True
CamExhaust ==
    /\ cam_pc = "running"
    /\ cam_i = cam_in.frames
    /\ cam_pc' = IF cam_in.variant = "iter" THEN "exhausted" ELSE "returned"
    /\ UNCHANGED << rndVars, strVars, conVars, cam_in, cam_i, poses, surfaceVars, jobVars, cmdVars, fnVars >>

CameraNext == CamNextPose \/ CamExhaust

SpecCamera == CameraInit /\ [][CameraNext]_vars

\* squared distance of two points
DistSq(p, q) ==
    (p[1] - q[1]) * (p[1] - q[1]) + (p[2] - q[2]) * (p[2] - q[2])
    + (p[3] - q[3]) * (p[3] - q[3])

\* equal up to the rounding of the thousandths: within one hundredth of b
Near(a, b) == a - b <= b \div 100 /\ b - a <= b \div 100

\* the distance factor of frame i: 2.0, and for the zoom the factor of the
\* frame between 3.0 and 1.5
FrameFactor(in, i) ==
    IF in.animation_type = "zoom" THEN 3000 - i * (1500 \div in.frames) ELSE 2000

\* C10 as claimed: in every mode the eye of every pose lies at distance
\* max(box dimension) x distance factor from the centre of the model.
C10_EyeAtRadius ==
    \A k \in DOMAIN poses :
      LET radius == MaxSize(cam_in.bounds) * FrameFactor(cam_in, k - 1)
      IN  /\ poses[k].focus = Center(cam_in.bounds)
          /\ Near(DistSq(poses[k].eye, poses[k].focus), radius * radius)

\* the offset of the eye of pose k from the centre of the model
EyeOffset(k) ==
    LET c == Center(cam_in.bounds)
    IN  << poses[k].eye[1] - c[1], poses[k].eye[2] - c[2], poses[k].eye[3] - c[3] >>

\* the generator has produced all its poses
AllPosesOut == cam_pc \in {"exhausted", "returned"}

\* C11 as claimed: with n >= 2 frames the interpolated parameter is the start
\* value at the first pose and the end value at the last pose: the orbit
\* starts at elevation 0 and ends at elevation 90 (height d * sin(elevation)
\* above the centre), the zoom starts at factor 3.0 and ends at factor 1.5
\* (height max_size * factor * sin(30 degrees) above the centre).
C11_InterpolationReachesEnds ==
    (AllPosesOut /\ cam_in.frames >= 2) =>
        LET n == cam_in.frames
            m == MaxSize(cam_in.bounds)
        IN  /\ cam_in.animation_type = "orbit" =>
                 /\ EyeOffset(1)[2] = Times(m * 2000, Sin(0))
                 /\ EyeOffset(n)[2] = Times(m * 2000, Sin(900))
            /\ cam_in.animation_type = "zoom" =>
                 /\ EyeOffset(1)[2] = Times(m * 3000, Sin(300))
                 /\ EyeOffset(n)[2] = Times(m * 1500, Sin(300))

\* C12: when every frame renders, each mode and each variant produces exactly
\* n_frames poses (never more while running), and in rotation mode pose i
\* stands at azimuth i * 360 / n on the horizontal circle of radius d; for
\* n = 4 these are the azimuths 0, 90, 180 and 270 degrees.
C12_ExactlyNFrames ==
    /\ Len(poses) <= cam_in.frames
    /\ Len(poses) = cam_i
    /\ AllPosesOut => Len(poses) = cam_in.frames
    /\ cam_in.animation_type = "rotation" =>
         LET d == MaxSize(cam_in.bounds) * 2000
         IN  /\ \A k \in DOMAIN poses :
                   /\ EyeOffset(k)[1] = Times(d, Cos((k - 1) * (3600 \div cam_in.frames)))
                   /\ EyeOffset(k)[3] = Times(d, Sin((k - 1) * (3600 \div cam_in.frames)))
             /\ (cam_in.frames = 4 /\ Len(poses) = 4) =>
                   /\ << EyeOffset(1)[1], EyeOffset(1)[3] >> = << d, 0 >>
                   /\ << EyeOffset(2)[1], EyeOffset(2)[3] >> = << 0, d >>
                   /\ << EyeOffset(3)[1], EyeOffset(3)[3] >> = << 0 - d, 0 >>
                   /\ << EyeOffset(4)[1], EyeOffset(4)[3] >> = << 0, 0 - d >>

\* a buffered rotation of four frames has returned True and a lazy one of
\* twelve frames is exhausted
C12_Witness ==
    /\ AllPosesOut
    /\ cam_in.animation_type = "rotation"
    /\ \/ cam_in.variant = "generate" /\ cam_in.frames = 4 /\ Len(poses) = 4
       \/ cam_in.variant = "iter" /\ cam_in.frames = 12 /\ Len(poses) = 12

\* the voxel map is two plain cubes of one block id, adjacent along one axis
IsRowOfTwo(p, q) ==
    /\ DOMAIN blocks = {p, q}
    /\ p # q
    /\ DOMAIN CubeBlocks(blocks) = {p, q}
    /\ blocks[p].id = blocks[q].id
    /\ \E f \in Range(CubeFaceOrder) : q = Add3(p, CUBE_FACE_DIRS[f])

\* face direction f runs along the row of p and q
AlongRow(f, p, q) ==
    q = Add3(p, CUBE_FACE_DIRS[f]) \/ p = Add3(q, CUBE_FACE_DIRS[f])

\* C15: two identically-materialed plain cubes adjacent along any one axis
\* and otherwise isolated yield exactly 6 quads: for each of the four
\* directions perpendicular to the row one merged quad covering both cubes,
\* and for each of the two directions along the row one unit quad, the end
\* cap, and no quad for the two touching faces.
C15_RowOfTwoYieldsSixQuads ==
    spc = "surfaces" =>
      \A p, q \in DOMAIN blocks :
        IsRowOfTwo(p, q) =>
          /\ Len(surfaces) = 6
          /\ \A f \in Range(CubeFaceOrder) :
                /\ Cardinality(MergedQuadsOf(f)) = 1
                /\ \A i \in MergedQuadsOf(f) :
                      IF AlongRow(f, p, q)
                      THEN /\ Cardinality(Covered(surfaces[i])) = 1
                           /\ Covered(surfaces[i]) \subseteq {p, q}
                           /\ \A c \in Covered(surfaces[i]) :
                                 Add3(c, CUBE_FACE_DIRS[f]) \notin {p, q}
                      ELSE Covered(surfaces[i]) = {p, q}

\* the surfaces of a column of two grass blocks, one above the other, and of
\* rows along the other two axes are the cases of C15
C15_Witness ==
    /\ spc = "surfaces"
    /\ Len(surfaces) = 6
    /\ IsRowOfTwo(<<0, 0, 0>>, <<0, 1, 0>>)
    /\ blocks[<<0, 0, 0>>].id = << "minecraft", "grass_block" >>

-----------------------------------------------------------------------------
(* Culling of model-element faces and of cube faces *)

\* the model instances selected for the block at p
InstancesAt(p) == _get_special_models(blocks[p].id, blocks[p].properties)

\* every face of every element of every instance of every block with a model
\* of its own: << position, instance, element, face >>
FaceRefs ==
    UNION { UNION { UNION { { << p, k, e, j >> :
                                j \in DOMAIN InstancesAt(p)[k].model.elements[e].faces } :
                            e \in DOMAIN InstancesAt(p)[k].model.elements } :
                    k \in DOMAIN InstancesAt(p) } :
            p \in SpecialPositions(blocks) }

FaceOf(r) == InstancesAt(r[1])[r[2]].model.elements[r[3]].faces[r[4]]

\* the face declares a cull-face direction and a voxel is present at the
\* neighbouring position in that direction
CullSatisfied(r) ==
    /\ FaceOf(r).cullface \in DOMAIN FACE_DIRS
    /\ Add3(r[1], FACE_DIRS[FaceOf(r).cullface]) \in DOMAIN blocks

\* the face of a wire whose texture is the overlay
IsWireOverlay(r) ==
    /\ BlockName(blocks[r[1]].id) = "redstone_wire"
    /\ resolve_texture_name(InstancesAt(r[1])[r[2]].model, FaceOf(r).texture)
         = << "redstone_dust_overlay", "" >>

\* the quads of the surface list that come from model elements
ModelQuads == { i \in SurfaceIdx : ~IsMergedQuad(surfaces[i]) }

ModelFaceNames == DOMAIN FACE_DIRS

\* every merged cube quad covers only cells whose neighbour along the normal
\* is absent from the whole voxel map
CubeFacesCulled ==
    \A f \in Range(CubeFaceOrder) : \A i \in MergedQuadsOf(f) :
        /\ Covered(surfaces[i]) # {}
        /\ \A p \in Covered(surfaces[i]) :
              p \in DOMAIN blocks /\ Add3(p, CUBE_FACE_DIRS[f]) \notin DOMAIN blocks

\* C14 as claimed: a model-element face is skipped exactly when it declares a
\* cull-face direction and a voxel is present at the neighbouring position in
\* that direction (so the quads of each face name are as many as the faces
\* whose cull condition is unsatisfied), and a cube face is emitted only if
\* the neighbour along its normal is absent from the whole voxel map.
C14_SkippedExactlyWhenCulled ==
    spc = "surfaces" =>
        /\ \A fn \in ModelFaceNames :
              Cardinality({ i \in ModelQuads : surfaces[i].face = fn })
                = Cardinality({ r \in FaceRefs : FaceOf(r).name = fn /\ ~CullSatisfied(r) })
        /\ CubeFacesCulled

\* C14 amended: a model-element face is skipped exactly when its cull
\* condition is satisfied or it is a face of a redstone wire whose texture is
\* the overlay; a cube face is emitted only if the neighbour along its normal
\* is absent from the whole voxel map.
C14_SkippedWhenCulledOrOverlay ==
    spc = "surfaces" =>
        /\ \A fn \in ModelFaceNames :
              Cardinality({ i \in ModelQuads : surfaces[i].face = fn })
                = Cardinality({ r \in FaceRefs : /\ FaceOf(r).name = fn
                                                 /\ ~CullSatisfied(r)
                                                 /\ ~IsWireOverlay(r) })
        /\ CubeFacesCulled

\* a wire stands on a plain cube: the wire's line face pointing down is
\* culled by the cube, its overlay faces are skipped, its line face pointing
\* up is emitted, and the cube's top face is hidden by the wire
C14_Witness ==
    /\ spc = "surfaces"
    /\ \E r \in FaceRefs : CullSatisfied(r) /\ ~IsWireOverlay(r)
    /\ \E r \in FaceRefs : ~CullSatisfied(r) /\ IsWireOverlay(r)
    /\ \E i \in ModelQuads : surfaces[i].block_id = << "minecraft", "redstone_wire" >>
    /\ \E p \in DOMAIN CubeBlocks(blocks) :
          Add3(p, CUBE_FACE_DIRS["top"]) \in SpecialPositions(blocks)
    /\ MergedQuadsOf("top") = {}
    /\ MergedQuadsOf("bottom") # {}

-----------------------------------------------------------------------------
(* Missing model files and missing texture files *)

\* the model file the selection of special models asks for first
RequestedModel(block_id, properties) ==
    LET name == BlockName(block_id)
    IN  IF name = "redstone_wire"
        THEN IF \E d \in {"north", "south", "east", "west"} :
                    PropGet(properties, d, "none") # "none"
             THEN "redstone_dust_side0" ELSE "redstone_dust_dot"
        ELSE IF name = "hopper"
        THEN IF PropGet(properties, "facing", "down") = "down" THEN "hopper" ELSE "hopper_side"
        ELSE name

\* the voxels with geometry of their own whose model file does not exist
ModelFileAbsent ==
    { p \in DOMAIN blocks :
        /\ BlockName(blocks[p].id) \in {"redstone_wire", "hopper", "piston", "sticky_piston"}
        /\ RequestedModel(blocks[p].id, blocks[p].properties) \notin DOMAIN ModelFiles }

\* the texture names of the surface list for which no file exists
TextureFileAbsent ==
    { surfaces[i].texture : i \in { j \in SurfaceIdx : surfaces[j].texture # NoTexture } }
      \ AvailableTextures

BatchIdx == DOMAIN mesh.textured

RECURSIVE BatchedQuads(_)
BatchedQuads(k) ==
    IF k = 0 THEN 0 ELSE Len(mesh.textured[k].quads) + BatchedQuads(k - 1)

-----------------------------------------------------------------------------
(* Helper functions called on their own.  The other parts of the plugin    *)
(* stay idle.                                                               *)

SurfaceIdle ==
    /\ schematic = Region({}, << >>)
    /\ blocks = EmptyBlocks
    /\ bounds = ZeroBounds
    /\ surfaces = << >>
    /\ spc = "idle"
    /\ mesh = NoMesh

-----------------------------------------------------------------------------
(* GifExporter.estimate_scaled_size.  The estimate width * height * 0.25 * *)
(* frame_count is held as four times its value, so it stays an integer;    *)
(* the square root and the products are those of real arithmetic.          *)

\* None
NoResize == << >>

\* the largest k with k <= dim * sqrt(max_size / estimated), searched upwards
\* from k: int(dim * scale_factor) for a positive dim
RECURSIVE TruncScaledFrom(_, _, _, _)
TruncScaledFrom(k, dim, estimated4, max_size) ==
    IF (k + 1) * (k + 1) * estimated4 <= dim * dim * 4 * max_size
    THEN TruncScaledFrom(k + 1, dim, estimated4, max_size)
    ELSE k

\* max(1, v) without the lower limit, as the variant
ClampDimAbsent(v) == v

\* max(1, int(...)), lines 279-280
ClampDim(v) == Max(1, v)

estimate_scaled_size(width, height, frame_count, max_size) ==
    IF frame_count <= 0 THEN NoResize
    ELSE LET estimated4 == width * height * frame_count
         IN  IF estimated4 <= 4 * max_size THEN NoResize
             ELSE << ClampDim(TruncScaledFrom(0, width, estimated4, max_size)),
                     ClampDim(TruncScaledFrom(0, height, estimated4, max_size)) >>

EstimateInputs ==
    [ width       : {1, 2, 3, 8, 64},
      height      : {1, 2, 3, 8, 64},
      frame_count : {0, 1, 2, 4},
      max_size    : {0, 1, 4, 16, 100} ]

EstimateInit ==
    /\ fn_args \in EstimateInputs
    /\ fn_ret = << >>
    /\ fn_log = << >>
    /\ fn_pc = "called"
    /\ SurfaceIdle
    /\ JobIdle
    /\ CmdIdle
    /\ CamIdle
    /\ ConIdle
    /\ RndIdle
    /\ StrIdle

EstimateApply ==
    /\ fn_pc = "called"
    /\ fn_ret' = estimate_scaled_size(fn_args.width, fn_args.height,
                                      fn_args.frame_count, fn_args.max_size)
    /\ fn_log' = Append(fn_log, "estimate_scaled_size")
    /\ fn_pc' = "returned"
    /\ UNCHANGED << rndVars, strVars, conVars, fn_args, surfaceVars, jobVars, cmdVars, camVars >>

EstimateNext == EstimateApply

SpecEstimate == EstimateInit /\ [][EstimateNext]_vars

\* four times the estimate of the call
Estimated4 == fn_args.width * fn_args.height * fn_args.frame_count

\* v is dim * s truncated to an integer, s = sqrt(max_size / estimated)
IsTruncScaled(v, dim) ==
    /\ v >= 0
    /\ v * v * Estimated4 <= dim * dim * 4 * fn_args.max_size
    /\ (v + 1) * (v + 1) * Estimated4 > dim * dim * 4 * fn_args.max_size

-----------------------------------------------------------------------------
(* SurfaceBuilder._apply_uv_rotation called repeatedly on the four corner  *)
(* UVs of a UV rectangle.                                                   *)

MaxRotations == 4

\* u1, v1, u2, v2 of the rectangles tried: plain, mirrored and degenerate
UVEdges == {0, 4, 16}

UVRects == { << u1, v1, u2, v2 >> : u1 \in UVEdges, v1 \in UVEdges, u2 \in UVEdges, v2 \in UVEdges }

\* the rotations a face may declare
UVRotations == {0, 90, 180, 270}

\* the four corner UVs of a rectangle
Corners(uv_rect) ==
    << << uv_rect[1], uv_rect[2] >>, << uv_rect[3], uv_rect[2] >>,
       << uv_rect[3], uv_rect[4] >>, << uv_rect[1], uv_rect[4] >> >>

UVRotationInit ==
    /\ fn_args \in [ uv_rect : UVRects ]
    /\ fn_ret = Corners(fn_args.uv_rect)
    /\ fn_log = << >>
    /\ fn_pc = "called"
    /\ SurfaceIdle
    /\ JobIdle
    /\ CmdIdle
    /\ CamIdle
    /\ ConIdle
    /\ RndIdle
    /\ StrIdle

\* one more call on the UVs the last call returned
UVRotate ==
    /\ Len(fn_log) < MaxRotations
    /\ \E rotation \in UVRotations :
          /\ fn_ret' = _apply_uv_rotation(fn_ret, fn_args.uv_rect, rotation)
          /\ fn_log' = Append(fn_log, rotation)
    /\ fn_pc' = "returned"
    /\ UNCHANGED << rndVars, strVars, conVars, fn_args, surfaceVars, jobVars, cmdVars, camVars >>

UVRotationNext == UVRotate

SpecUVRotation == UVRotationInit /\ [][UVRotationNext]_vars

RECURSIVE SumOf(_)
SumOf(seq) == IF seq = << >> THEN 0 ELSE seq[1] + SumOf(Tail(seq))

NonDegenerate(uv_rect) == uv_rect[1] # uv_rect[3] /\ uv_rect[2] # uv_rect[4]

\* C16: a rotation by 0 returns the UVs unchanged, and on the corner UVs of
\* a non-degenerate rectangle every succession of rotations that adds up to
\* a whole turn (90 four times, 90 then 270, 180 twice) returns the
\* original UVs, while one that does not add up to a whole turn does not.
C16_UVRotationsCompose ==
    /\ fn_log = << 0 >> => fn_ret = Corners(fn_args.uv_rect)
    /\ (fn_log # << >> /\ NonDegenerate(fn_args.uv_rect)) =>
          (fn_ret = Corners(fn_args.uv_rect)) <=> (SumOf(fn_log) % 360 = 0)

\* the 90-degree rotation has been applied four times to the corners of a
\* mirrored, non-square rectangle
C16_Witness ==
    /\ fn_log = << 90, 90, 90, 90 >>
    /\ fn_args.uv_rect = << 16, 0, 0, 4 >>
    /\ fn_ret = Corners(fn_args.uv_rect)

-----------------------------------------------------------------------------
(* TextureSampler._get_tint_color called for a block with several values   *)
(* of its power property.                                                   *)

MaxTintCalls == 2

\* values of the power property: the texts of 0 .. 16, texts of numbers out
\* of range, a text that is no number, and None for an absent property
PowerValues == Range(DecimalTexts) \cup {"-1", "120", "abc", None}

TintInit ==
    /\ fn_args \in [ block_id  : { << "minecraft", "redstone_wire" >>, << "minecraft", "hopper" >> },
                      tintindex : {"0", None} ]
    /\ fn_ret = << >>
    /\ fn_log = << >>
    /\ fn_pc = "called"
    /\ SurfaceIdle
    /\ JobIdle
    /\ CmdIdle
    /\ CamIdle
    /\ ConIdle
    /\ RndIdle
    /\ StrIdle

TintCall ==
    /\ Len(fn_log) < MaxTintCalls
    /\ \E power_value \in PowerValues :
          LET color == _get_tint_color(fn_args.block_id,
                                       [NoProps EXCEPT !["power"] = power_value],
                                       fn_args.tintindex)
          IN  /\ fn_ret' = color
              /\ fn_log' = Append(fn_log, [ power |-> power_value, color |-> color ])
    /\ fn_pc' = "returned"
    /\ UNCHANGED << rndVars, strVars, conVars, fn_args, surfaceVars, jobVars, cmdVars, camVars >>

TintNext == TintCall

SpecTint == TintInit /\ [][TintNext]_vars

\* the calls were made for a wire face with a tint index
WireTinted == fn_args.block_id[2] = "redstone_wire" /\ fn_args.tintindex # None

\* the power a value of the property stands for after defaulting and
\* clamping into 0 .. 15
ClampedPower(power_value) ==
    CASE power_value \in {"-1", "abc", None} -> 0
      [] power_value \in {"16", "120"}        -> 15
      [] OTHER -> (CHOOSE i \in DOMAIN DecimalTexts : DecimalTexts[i] = power_value) - 1

\* C17: for a wire face with a tint index the red channel never decreases
\* as the power rises, the colours of power 0 and power 15 differ, and a
\* power outside 0..15 or no number gives the colour of the power it is
\* clamped or defaulted to.
C17_RedMonotone ==
    WireTinted =>
      \A i, j \in DOMAIN fn_log :
        LET a == fn_log[i]
            b == fn_log[j]
        IN  /\ Len(a.color) = 3
            /\ ClampedPower(a.power) <= ClampedPower(b.power) => a.color[1] <= b.color[1]
            /\ ClampedPower(a.power) = ClampedPower(b.power) => a.color = b.color
            /\ (ClampedPower(a.power) = 0 /\ ClampedPower(b.power) = 15) => a.color # b.color

\* the tint of a wire was asked for a power below the range and then for
\* power 15
C17_Witness ==
    /\ WireTinted
    /\ Len(fn_log) = 2
    /\ fn_log[1].power = "-1"
    /\ fn_log[2].power = "15"
    /\ fn_log[1].color[1] < fn_log[2].color[1]

\* C18 as claimed: green and blue are both zero at low power and both rise
\* above zero at high power: at power 15 green and blue are both strictly
\* greater than at power 0.
C18_GreenAndBlueRise ==
    WireTinted =>
      \A i, j \in DOMAIN fn_log :
        LET a == fn_log[i]
            b == fn_log[j]
        IN  /\ ClampedPower(a.power) <= 7 => (a.color[2] = 0 /\ a.color[3] = 0)
            /\ (ClampedPower(a.power) = 0 /\ ClampedPower(b.power) = 15) =>
                  (a.color[2] < b.color[2] /\ a.color[3] < b.color[3])

-----------------------------------------------------------------------------
(* Two render jobs dispatched through render_litematic_3d_async.  Each runs  *)
(* render_litematic_3d on a worker thread of asyncio.to_thread, so their     *)
(* steps interleave freely.  An object is a heap entry; a constructor call   *)
(* appends a new entry and the job keeps its id in a local variable.  The    *)
(* manager is the one object both jobs are handed (self).                    *)

MaxJobFrames == 2

JobFiles == {"a.litematic", "b.litematic"}

JobArgs == [ file_path : JobFiles, frames : 1 .. MaxJobFrames ]

\* plotter is the render context a renderer holds, open whether a context has
\* not been closed, rendered the frames drawn on a context
Object(kind, creator, content) ==
    [ kind |-> kind, creator |-> creator, content |-> content, batches |-> None,
      plotter |-> NoObject, open |-> FALSE, rendered |-> 0 ]

\* the Render3DManager of the plugin; config and resource_dir are set once in
\* __init__ and only read afterwards
ManagerId == 1

NoLocals ==
    [ model_builder |-> NoObject, surface_builder |-> NoObject, color_mapper |-> NoObject,
      renderer |-> NoObject, animation_generator |-> NoObject, gif_exporter |-> NoObject ]

TwoJobsInit ==
    /\ heap = << Object("Render3DManager", 0, "resource_dir") >>
    /\ job_args = [ j \in Jobs |-> << >> ]
    /\ job_pc = [ j \in Jobs |-> "idle" ]
    /\ job_locals = [ j \in Jobs |-> NoLocals ]
    /\ job_out = [ j \in Jobs |-> << >> ]
    /\ accesses = {}
    /\ SurfaceIdle
    /\ JobIdle
    /\ CmdIdle
    /\ CamIdle
    /\ FnIdle
    /\ RndIdle
    /\ StrIdle

\* the id the next constructor call returns
NewId(h) == Len(h) + 1

\* the renderer most recently constructed by any job: what a job would use if
\* the manager kept the renderer in a field of its own
RendererOfManagerField(j) ==
    CHOOSE r \in DOMAIN heap :
        /\ heap[r].kind = "PyVistaRenderer"
        /\ \A q \in DOMAIN heap : heap[q].kind = "PyVistaRenderer" => q <= r

\* the renderer of a job is the one its local variable refers to
RendererOf(j) == job_locals[j].renderer

Used(j, op, id) == accesses' = accesses \cup { << j, op, id >> }

\* render_litematic_3d_async: the call is handed to a worker thread
Dispatch(j) ==
    /\ job_pc[j] = "idle"
    /\ \E a \in JobArgs : job_args' = [job_args EXCEPT ![j] = a]
    /\ job_pc' = [job_pc EXCEPT ![j] = "dispatched"]
    /\ Used(j, "call", ManagerId)
    /\ UNCHANGED << heap, job_locals, job_out, surfaceVars, jobVars, cmdVars, camVars, fnVars, rndVars, strVars >>

\* steps 1 and 2: the structure is loaded and a ModelBuilder built from it
ThreadBuildModel(j) ==
    /\ job_pc[j] = "dispatched"
    /\ heap' = Append(heap, Object("ModelBuilder", j, job_args[j].file_path))
    /\ job_locals' = [job_locals EXCEPT ![j].model_builder = NewId(heap)]
    /\ job_pc' = [job_pc EXCEPT ![j] = "model"]
    /\ Used(j, "build_from_litematic", NewId(heap))
    /\ UNCHANGED << job_args, job_out, surfaceVars, jobVars, cmdVars, camVars, fnVars, rndVars, strVars >>

\* step 3: a SurfaceBuilder with its own TextureSampler, ModelResolver and
\* caches, built from the job's model data and the manager's resource_dir
ThreadBuildSurfaces(j) ==
    /\ job_pc[j] = "model"
    /\ heap' = Append(heap, Object("SurfaceBuilder", j, heap[job_locals[j].model_builder].content))
    /\ job_locals' = [job_locals EXCEPT ![j].surface_builder = NewId(heap)]
    /\ job_pc' = [job_pc EXCEPT ![j] = "surfaces"]
    /\ accesses' = accesses \cup { << j, "get_model_data", job_locals[j].model_builder >>,
                                   << j, "read resource_dir", ManagerId >>,
                                   << j, "build_surfaces", NewId(heap) >> }
    /\ UNCHANGED << job_args, job_out, surfaceVars, jobVars, cmdVars, camVars, fnVars, rndVars, strVars >>

\* steps 4 and 5: a ColorMapper and a PyVistaRenderer over the job's surfaces
ThreadCreateRenderer(j) ==
    /\ job_pc[j] = "surfaces"
    /\ heap' = heap \o << Object("ColorMapper", j, "colors"),
                          Object("PyVistaRenderer", j, heap[job_locals[j].surface_builder].content) >>
    /\ job_locals' = [job_locals EXCEPT ![j].color_mapper = NewId(heap),
                                        ![j].renderer = NewId(heap) + 1]
    /\ job_pc' = [job_pc EXCEPT ![j] = "renderer"]
    /\ accesses' = accesses \cup { << j, "read resource_dir", ManagerId >> }
    /\ UNCHANGED << job_args, job_out, surfaceVars, jobVars, cmdVars, camVars, fnVars, rndVars, strVars >>

\* step 6: renderer.create_mesh() fills the renderer's mesh batches
ThreadCreateMesh(j) ==
    /\ job_pc[j] = "renderer"
    /\ LET r == RendererOf(j)
       IN  /\ heap' = [heap EXCEPT ![r].batches = heap[r].content]
           /\ Used(j, "create_mesh", r)
    /\ job_pc' = [job_pc EXCEPT ![j] = "mesh"]
    /\ UNCHANGED << job_args, job_locals, job_out, surfaceVars, jobVars, cmdVars, camVars, fnVars, rndVars, strVars >>

\* steps 7 and 8: an AnimationGenerator that keeps the renderer, a
\* GifExporter, and the size budget read from the manager's config
ThreadCreateAnimation(j) ==
    /\ job_pc[j] = "mesh"
    /\ heap' = heap \o << Object("AnimationGenerator", j, RendererOf(j)),
                          Object("GifExporter", j, "config") >>
    /\ job_locals' = [job_locals EXCEPT ![j].animation_generator = NewId(heap),
                                        ![j].gif_exporter = NewId(heap) + 1]
    /\ job_pc' = [job_pc EXCEPT ![j] = "frames"]
    /\ accesses' = accesses \cup { << j, "read config", ManagerId >> }
    /\ UNCHANGED << job_args, job_out, surfaceVars, jobVars, cmdVars, camVars, fnVars, rndVars, strVars >>

\* one render_scene(reuse_plotter=True) of the frame iterator: the context
\* the renderer holds is used, a new one holding the renderer's batches is
\* made when it holds none; a context that was closed draws nothing
ThreadRenderFrame(j) ==
    /\ job_pc[j] = "frames"
    /\ Len(job_out[j]) < job_args[j].frames
    /\ LET r    == heap[job_locals[j].animation_generator].content
           made == heap[r].plotter = NoObject
           c    == IF made THEN NewId(heap) ELSE heap[r].plotter
           h1   == IF made
                   THEN [ Append(heap, [ Object("Plotter", j, heap[r].batches)
                                           EXCEPT !.open = TRUE ])
                            EXCEPT ![r].plotter = c ]
                   ELSE heap
       IN  /\ heap' = [h1 EXCEPT ![c].rendered = @ + 1]
           /\ job_out' = [job_out EXCEPT ![j] =
                             Append(@, IF h1[c].open THEN h1[c].content ELSE None)]
           /\ accesses' = accesses \cup { << j, "render_scene", r >>, << j, "render", c >> }
    /\ UNCHANGED << job_args, job_pc, job_locals, surfaceVars, jobVars, cmdVars, camVars, fnVars, rndVars, strVars >>

\* the iterator is exhausted and its finally clause calls renderer.close()
ThreadClose(j) ==
    /\ job_pc[j] = "frames"
    /\ Len(job_out[j]) = job_args[j].frames
    /\ LET r == heap[job_locals[j].animation_generator].content
           c == heap[r].plotter
       IN  /\ heap' = IF c = NoObject THEN heap
                      ELSE [heap EXCEPT ![c].open = FALSE, ![r].plotter = NoObject]
           /\ accesses' = accesses \cup ({ << j, "close", r >> }
                             \cup (IF c = NoObject THEN {} ELSE { << j, "plotter.close", c >> }))
    /\ job_pc' = [job_pc EXCEPT ![j] = "closed"]
    /\ UNCHANGED << job_args, job_locals, job_out, surfaceVars, jobVars, cmdVars, camVars, fnVars, rndVars, strVars >>

\* the path of the exported file is returned to the awaiting caller
ThreadReturn(j) ==
    /\ job_pc[j] = "closed"
    /\ job_pc' = [job_pc EXCEPT ![j] = "returned"]
    /\ Used(j, "export_gif_with_temp_stream", job_locals[j].gif_exporter)
    /\ UNCHANGED << heap, job_args, job_locals, job_out, surfaceVars, jobVars, cmdVars, camVars, fnVars, rndVars, strVars >>

TwoJobsNext ==
    \E j \in Jobs :
        \/ Dispatch(j)
        \/ ThreadBuildModel(j)
        \/ ThreadBuildSurfaces(j)
        \/ ThreadCreateRenderer(j)
        \/ ThreadCreateMesh(j)
        \/ ThreadCreateAnimation(j)
        \/ ThreadRenderFrame(j)
        \/ ThreadClose(j)
        \/ ThreadReturn(j)

SpecTwoJobs == TwoJobsInit /\ [][TwoJobsNext]_vars

\* the objects a job's local variables refer to
LocalObjects(j) == { job_locals[j][n] : n \in DOMAIN job_locals[j] } \ { NoObject }

\* the operations that only read attributes set at construction
ReadOnly == { "call", "read resource_dir", "read config" }

\* C20: two jobs dispatched concurrently share no mutable render state.  The
\* only object both jobs use is the manager, which they only read; every
\* other object a job uses (model builder, surface builder with its caches,
\* renderer, render context) was constructed by that job; a renderer holds a
\* context of its own job; every frame a job produces shows the batches of
\* its own file; and a context is closed only once its own job has closed it.
C20_JobsShareNoRenderState ==
    /\ \A a \in accesses :
          IF a[3] = ManagerId THEN a[2] \in ReadOnly ELSE heap[a[3]].creator = a[1]
    /\ \A j \in Jobs : \A k \in Jobs \ {j} : LocalObjects(j) \cap LocalObjects(k) = {}
    /\ \A r \in DOMAIN heap :
          heap[r].plotter # NoObject => heap[heap[r].plotter].creator = heap[r].creator
    /\ \A j \in Jobs : \A i \in DOMAIN job_out[j] : job_out[j][i] = job_args[j].file_path
    /\ \A c \in DOMAIN heap :
          heap[c].kind = "Plotter" =>
            /\ heap[c].content = job_args[heap[c].creator].file_path
            /\ heap[c].open <=> job_pc[heap[c].creator] = "frames"
            /\ heap[c].rendered <= job_args[heap[c].creator].frames

\* both jobs render different files at the same time: job 2 made its renderer
\* and its context after job 1 did, job 1 has closed its context and job 2
\* goes on drawing on its own open one
C20_Witness ==
    /\ job_pc[1] \in {"closed", "returned"}
    /\ job_pc[2] = "frames"
    /\ job_args[1].file_path # job_args[2].file_path
    /\ Len(job_out[1]) = MaxJobFrames
    /\ Len(job_out[2]) >= 1
    /\ \E c1, c2 \in DOMAIN heap :
          /\ heap[c1].kind = "Plotter" /\ heap[c1].creator = 1 /\ ~heap[c1].open
          /\ heap[c2].kind = "Plotter" /\ heap[c2].creator = 2 /\ heap[c2].open
          /\ job_locals[1].renderer < job_locals[2].renderer
          /\ job_locals[2].renderer < c1
          /\ c1 < c2

-----------------------------------------------------------------------------
(* One PyVistaRenderer whose mesh batches exist, and the calls of           *)
(* render_scene and close made on it.  A render context is an entry of      *)
(* r_contexts; creating a context and drawing on it succeed.                *)

MaxCalls == 3

\* the arguments of render_scene: a camera position or window size that is
\* not supplied (None) is << >>, a pose p that is supplied is << p >>
ExplicitPose == [ eye |-> <<5000, 0, 0>>, focus |-> <<0, 0, 0>>, up |-> <<0, 1, 0>> ]

NotSupplied == << >>

PoseArgs == { NotSupplied, << ExplicitPose >> }

BackgroundArgs == { None, "dark" }

WindowArgs == { NotSupplied, <<400, 300>> }

RendererInit ==
    /\ r_sampler = TRUE
    /\ r_config = DefaultConfig
    /\ r_plotter = NoObject
    /\ r_key = << >>
    /\ r_contexts = << >>
    /\ r_calls = << >>
    /\ schematic = Region({}, << >>)
    /\ blocks = EmptyBlocks
    /\ bounds \in { Box(1, 1, 1), Box(2, 1, 1), Box(1, 3, 2) }
    /\ surfaces = << >>
    /\ spc = "renderer"
    /\ mesh = NoMesh
    /\ JobIdle
    /\ CmdIdle
    /\ CamIdle
    /\ FnIdle
    /\ ConIdle
    /\ StrIdle

\* lines 127-152: the isometric pose of the bounding box
IsoPose(b) ==
    LET c == Center(b)
        distance == MaxSize(b) * 2000
    IN  CameraPosition(<< c[1] + distance, c[2] + distance, c[3] + distance >>, b)

\* lines 109-114: the arguments that were supplied replace the config entries
UpdatedConfig(config, camera_position, background_color, window_size_arg) ==
    [ camera_position  |-> IF camera_position # NotSupplied THEN camera_position
                           ELSE config.camera_position,
      background_color |-> IF background_color # None THEN background_color
                           ELSE config.background_color,
      window_size      |-> IF window_size_arg # NotSupplied THEN window_size_arg
                           ELSE config.window_size ]

\* lines 127-154: the pose the context is given
PoseOf(config, b) ==
    IF config.camera_position = << >> THEN IsoPose(b) ELSE config.camera_position[1]

Context(window, background) ==
    [ open |-> TRUE, added |-> 1, renders |-> 0, window_size |-> window,
      background |-> background ]

\* a comparison of the cached key that never succeeds
KeyMatchesNever(cached, key) == FALSE

\* lines 203-204: the cached window size and background equal the wanted ones
KeyMatches(cached, key) == cached = key

\* _get_or_create_plotter: the contexts and renderer fields it leaves, the
\* context it returns, and the most contexts open at one moment inside it
GetOrCreatePlotter(window, background) ==
    LET key == << window, background >>
    IN  IF r_plotter # NoObject /\ KeyMatches(r_key, key)
        THEN [ contexts |-> r_contexts, plotter |-> r_plotter, key |-> r_key,
               created |-> FALSE, peak |-> 1 ]
        ELSE LET closed == IF r_plotter # NoObject
                           THEN [r_contexts EXCEPT ![r_plotter].open = FALSE]
                           ELSE r_contexts
             IN  [ contexts |-> Append(closed, Context(window, background)),
                   plotter |-> Len(closed) + 1, key |-> key,
                   created |-> TRUE, peak |-> 1 ]

\* the branch without reuse_plotter: a context of its own, beside the one the
\* renderer may hold, closed after the screenshot
OwnPlotter(window, background) ==
    [ contexts |-> Append(r_contexts, Context(window, background)),
      plotter |-> r_plotter, key |-> r_key, created |-> TRUE,
      peak |-> IF r_plotter # NoObject THEN 2 ELSE 1 ]

RenderScene ==
    /\ spc = "renderer"
    /\ Len(r_calls) < MaxCalls
    /\ \E camera_position \in PoseArgs, background_color \in BackgroundArgs,
          window_size_arg \in WindowArgs, reuse_plotter \in BOOLEAN :
         LET config == UpdatedConfig(r_config, camera_position, background_color,
                                     window_size_arg)
             got    == IF reuse_plotter
                       THEN GetOrCreatePlotter(config.window_size, config.background_color)
                       ELSE OwnPlotter(config.window_size, config.background_color)
             used   == IF reuse_plotter THEN got.plotter ELSE Len(got.contexts)
             pose   == PoseOf(config, bounds)
         IN  /\ r_config' = config
             /\ r_plotter' = got.plotter
             /\ r_key' = got.key
             /\ r_contexts' = [got.contexts EXCEPT ![used].renders = @ + 1,
                                                   ![used].open = reuse_plotter]
             /\ r_calls' = Append(r_calls,
                                  [ op |-> "render_scene", camera_position |-> camera_position,
                                    reuse_plotter |-> reuse_plotter, pose |-> << pose >>,
                                    context |-> used, created |-> got.created,
                                    peak |-> got.peak,
                                    key |-> << config.window_size, config.background_color >>,
                                    before |-> [ plotter |-> r_plotter, key |-> r_key ] ])
    /\ UNCHANGED << r_sampler, surfaceVars, jobVars, cmdVars, camVars, fnVars, conVars, strVars >>

\* PyVistaRenderer.close
RendererClose ==
    /\ spc = "renderer"
    /\ Len(r_calls) < MaxCalls
    /\ r_contexts' = IF r_plotter = NoObject THEN r_contexts
                     ELSE [r_contexts EXCEPT ![r_plotter].open = FALSE]
    /\ r_plotter' = NoObject
    /\ r_key' = << >>
    /\ r_calls' = Append(r_calls,
                         [ op |-> "close", camera_position |-> NotSupplied,
                           reuse_plotter |-> FALSE, pose |-> << >>, context |-> NoObject, created |-> FALSE,
                           peak |-> 0, key |-> << >>,
                           before |-> [ plotter |-> r_plotter, key |-> r_key ] ])
    /\ UNCHANGED << r_sampler, r_config, surfaceVars, jobVars, cmdVars, camVars, fnVars, conVars, strVars >>

RendererNext == RenderScene \/ RendererClose

SpecRenderer == RendererInit /\ [][RendererNext]_vars

\* C21: a render_scene call without an explicit camera pose uses the
\* isometric pose of the bounding box, whatever poses earlier calls on the
\* same renderer were given.
C21_DefaultPoseIsIsometric ==
    \A k \in DOMAIN r_calls :
        (r_calls[k].op = "render_scene" /\ r_calls[k].camera_position = NotSupplied) =>
            r_calls[k].pose = << IsoPose(bounds) >>

OpenContexts == { c \in DOMAIN r_contexts : r_contexts[c].open }

\* calls i .. j are one animation run: render_scene with reuse_plotter, all
\* with the window size and background colour of call i
IsRun(i, j) ==
    \A k \in i .. j :
        /\ r_calls[k].op = "render_scene"
        /\ r_calls[k].reuse_plotter
        /\ r_calls[k].key = r_calls[i].key

\* C22: within one animation run with unchanged window size and background
\* colour one context serves every frame and it was created at most once in
\* the run; every context has the mesh batches added once; a reusing call
\* whose key differs from the cached one closes the old context before it
\* creates the new one, so such calls never have two contexts open and at
\* most one context is open between calls; close leaves no context and a
\* second close changes nothing.
C22_OneContextReused ==
    /\ \A i \in DOMAIN r_calls : \A j \in DOMAIN r_calls :
          (i < j /\ IsRun(i, j)) =>
              /\ r_calls[j].context = r_calls[i].context
              /\ ~r_calls[j].created
    /\ \A c \in DOMAIN r_contexts : r_contexts[c].added = 1
    /\ \A k \in DOMAIN r_calls :
          (r_calls[k].op = "render_scene" /\ r_calls[k].reuse_plotter) =>
              /\ r_calls[k].peak = 1
              /\ r_calls[k].created
                   <=> (r_calls[k].before.plotter = NoObject
                        \/ r_calls[k].before.key # r_calls[k].key)
    /\ OpenContexts = { r_plotter } \ { NoObject }
    /\ (r_plotter = NoObject) <=> (r_key = << >>)
    /\ (r_calls # << >> /\ r_calls[Len(r_calls)].op = "close") =>
          (r_plotter = NoObject /\ OpenContexts = {})

\* two frames of one run drawn on one context, then a frame with another
\* window size: the first context was closed before the second was made
C22_Witness ==
    /\ Len(r_calls) >= 3
    /\ IsRun(1, 2)
    /\ r_calls[3].op = "render_scene" /\ r_calls[3].reuse_plotter
    /\ r_calls[3].key # r_calls[1].key
    /\ r_contexts[1].renders = 2
    /\ ~r_contexts[1].open
    /\ r_contexts[2].open
    /\ r_plotter = 2

-----------------------------------------------------------------------------
(* The streaming export: export_gif_stream pulls frames from one of the     *)
(* iter_*_frames generators.  A generator runs only while the encoder is    *)
(* inside next(): the first frame is pulled by export_gif_stream itself,    *)
(* the others by the loop of _export_with_imageio or, when imageio cannot   *)
(* be imported, by the image library's save through iter_frames.  Renders   *)
(* and the encoder succeed here; their failures are part of the render job. *)
(* A frame counts as consumed when the encoder has taken it over; what the  *)
(* encoding library does with it afterwards is outside this repository.     *)

MaxStreamFrames == 3

StreamInputs ==
    [ n_frames  : 1 .. MaxStreamFrames,
      resize_to : { << >>, <<400, 300>> },
      encoder   : { "imageio", "pil" } ]

StreamInit ==
    /\ st_in \in StreamInputs
    /\ st_pc = "encoder_pull"
    /\ st_i = 0
    /\ st_held = << >>
    /\ st_written = << >>
    /\ SurfaceIdle
    /\ JobIdle
    /\ CmdIdle
    /\ CamIdle
    /\ FnIdle
    /\ ConIdle
    /\ RndIdle

\* a generator that goes on while the encoder still holds a frame
MayRunAhead(pc) == pc \in { "resumed", "encoder_hold" }

\* the generator body runs only between a next() and the following yield
MayRun(pc) == pc = "resumed"

\* next(frames_iter), or the for loop asking for the next frame
EncoderPull ==
    /\ st_pc = "encoder_pull"
    /\ st_pc' = "resumed"
    /\ UNCHANGED << st_in, st_i, st_held, st_written, surfaceVars, jobVars, cmdVars, camVars, fnVars, conVars, rndVars >>

\* the loop body up to render_scene for pose st_i
IterRenderStart ==
    /\ MayRun(st_pc)
    /\ st_i < st_in.n_frames
    /\ st_pc' = "rendering"
    /\ UNCHANGED << st_in, st_i, st_held, st_written, surfaceVars, jobVars, cmdVars, camVars, fnVars, conVars, rndVars >>

\* render_scene returned the frame of pose st_i and it is yielded
IterYield ==
    /\ st_pc = "rendering"
    /\ st_held' = Append(st_held, [ pose |-> st_i, size |-> << >> ])
    /\ st_i' = st_i + 1
    /\ st_pc' = "encoder_hold"
    /\ UNCHANGED << st_in, st_written, surfaceVars, jobVars, cmdVars, camVars, fnVars, conVars, rndVars >>

\* range(n_frames) is exhausted: the finally clause closes the renderer and
\* the encoder's loop ends
IterExhausted ==
    /\ MayRun(st_pc)
    /\ st_i = st_in.n_frames
    /\ st_pc' = "done"
    /\ UNCHANGED << st_in, st_i, st_held, st_written, surfaceVars, jobVars, cmdVars, camVars, fnVars, conVars, rndVars >>

\* the frame the encoder holds is resized when resize_to is set and appended
EncoderAppend ==
    /\ st_pc = "encoder_hold"
    /\ st_written' = Append(st_written, [ Head(st_held) EXCEPT !.size = st_in.resize_to ])
    /\ st_held' = Tail(st_held)
    /\ st_pc' = "encoder_pull"
    /\ UNCHANGED << st_in, st_i, surfaceVars, jobVars, cmdVars, camVars, fnVars, conVars, rndVars >>

StreamNext == EncoderPull \/ IterRenderStart \/ IterYield \/ IterExhausted \/ EncoderAppend

SpecStream == StreamInit /\ [][StreamNext]_vars

\* C23: on the streaming path frames are produced and consumed strictly in
\* order.  While the render of pose i is running every earlier frame has been
\* appended by the encoder and none is waiting; at most one rendered frame is
\* not yet appended at any time; the frames are appended in pose order.
C23_StreamIsSequential ==
    /\ Len(st_held) <= 1
    /\ st_pc = "rendering" => (st_held = << >> /\ Len(st_written) = st_i)
    /\ \A k \in DOMAIN st_written : st_written[k].pose = k - 1
    /\ \A k \in DOMAIN st_held : st_held[k].pose = Len(st_written) + k - 1
    /\ st_pc = "done" => (Len(st_written) = st_in.n_frames /\ st_held = << >>)

\* the render of the last of three poses is running after the first two
\* frames were appended in order
C23_Witness ==
    /\ st_pc = "rendering"
    /\ st_i = 2
    /\ st_in.n_frames = 3
    /\ Len(st_written) = 2
    /\ st_written[2].pose = 1

-----------------------------------------------------------------------------
(* create_mesh on a renderer constructed with or without a resource         *)
(* directory (resource_dir defaults to None, and then texture_sampler is    *)
(* None)                                                                    *)

MeshInit ==
    /\ \E S \in { T \in SUBSET Positions : Cardinality(T) <= MaxSpecial } :
          \E f \in [ S -> SpecialBlockChoices ] : schematic = Region(S, f)
    /\ blocks = EmptyBlocks
    /\ bounds = ZeroBounds
    /\ surfaces = << >>
    /\ spc = "loaded"
    /\ mesh = NoMesh
    /\ r_sampler \in BOOLEAN
    /\ r_config = DefaultConfig
    /\ r_plotter = NoObject
    /\ r_key = << >>
    /\ r_contexts = << >>
    /\ r_calls = << >>
    /\ JobIdle
    /\ CmdIdle
    /\ CamIdle
    /\ FnIdle
    /\ ConIdle
    /\ StrIdle

SpecMesh == MeshInit /\ [][SurfaceNext]_vars

\* how often the quad q occurs in the list seq
RECURSIVE Occurrences(_, _)
Occurrences(seq, q) ==
    IF seq = << >> THEN 0
    ELSE (IF Head(seq) = q THEN 1 ELSE 0) + Occurrences(Tail(seq), q)

RECURSIVE OccurrencesInBatches(_, _)
OccurrencesInBatches(k, q) ==
    IF k = 0 THEN 0
    ELSE Occurrences(mesh.textured[k].quads, q) + OccurrencesInBatches(k - 1, q)

\* C24: create_mesh places every quad of the surface list in exactly one
\* batch, with or without a texture sampler: no quad is dropped or
\* duplicated, the quads of one textured batch carry the batch's (texture,
\* tint) pair and no two batches carry the same pair, and the colour batch
\* holds exactly the flat-coloured quads.
C24_EveryQuadInOneBatch ==
    spc = "mesh" =>
        /\ \A i \in SurfaceIdx :
              Occurrences(mesh.colored, surfaces[i])
                + OccurrencesInBatches(Len(mesh.textured), surfaces[i])
                = Occurrences(surfaces, surfaces[i])
        /\ \A k \in BatchIdx : \A i \in DOMAIN mesh.textured[k].quads :
              /\ mesh.textured[k].quads[i].texture = mesh.textured[k].texture
              /\ mesh.textured[k].quads[i].tint = mesh.textured[k].tint
        /\ \A k \in BatchIdx : \A l \in BatchIdx :
              (mesh.textured[k].texture = mesh.textured[l].texture
                 /\ mesh.textured[k].tint = mesh.textured[l].tint) => k = l
        /\ \A i \in DOMAIN mesh.colored : mesh.colored[i].texture = NoTexture

\* ------------------------------------------------------------------------
\* ModelResolver.load over drawn model directories
\* (model_resolver.py lines 13-33, 49-72)
\* ------------------------------------------------------------------------

FileNames == {"a", "b", "c"}

\* the texture variables a fixture file may define; the value names the file
TextureChoices(name) == { [ k \in D |-> << name, k >> ] : D \in { {"x"}, {"y"}, {"x", "y"} } }

\* the models a fixture file may name as its parent: chains of up to three
\* models and cycles of one, two and three models come about
ParentChoices(name) ==
    IF name = "a" THEN {"a", "b"} ELSE IF name = "b" THEN {"a", "c"} ELSE {"a"}

\* the contents a model file may have: the empty object, or an object with
\* or without "parent", "textures" and "elements"
FileChoices(name) ==
    { NoModel } \cup
    { [ keys     |-> K \cup {"ambientocclusion"},
        parent   |-> IF "parent" \in K THEN ModelPath(pn) ELSE NoParent,
        textures |-> IF "textures" \in K THEN t ELSE [ k \in {} |-> << name, k >> ],
        elements |-> IF "elements" \in K THEN << name >> ELSE << >> ] :
        K \in SUBSET {"parent", "textures", "elements"},
        pn \in ParentChoices(name), t \in TextureChoices(name) }

\* the directories: the files present, each with one of its contents
Directories ==
    UNION { { [ n \in D |-> IF n = "a" THEN fa ELSE IF n = "b" THEN fb ELSE fc ] :
              fa \in FileChoices("a"), fb \in FileChoices("b"), fc \in FileChoices("c") } :
            D \in { {"a"}, {"a", "b"}, {"a", "b", "c"} } }

\* load on a resolver just constructed (empty cache): the value returned and
\* whether it was stored in _cache
LoadIn(model_files, model_name, depth) ==
    LET normalized == _normalize_model_name(model_name)
    IN  IF normalized \notin DOMAIN model_files
        THEN [ outcome |-> "returned", value |-> NoModel, cached |-> FALSE ]
        ELSE IF model_files[normalized].keys = {}
        THEN [ outcome |-> "returned", value |-> NoModel, cached |-> FALSE ]
        ELSE [ outcome |-> "returned",
               value   |-> ResolveIn(model_files, model_files[normalized], depth),
               cached  |-> TRUE ]

ResolverInit ==
    /\ fn_args \in [ model_files : Directories,
                     model_name  : { ModelPath("a") },
                     depth       : { MaxDepth } ]
    /\ fn_ret = << >>
    /\ fn_log = << >>
    /\ fn_pc = "called"
    /\ SurfaceIdle
    /\ JobIdle
    /\ CmdIdle
    /\ CamIdle
    /\ ConIdle
    /\ RndIdle
    /\ StrIdle

ResolverLoad ==
    /\ fn_pc = "called"
    /\ fn_ret' = LoadIn(fn_args.model_files, fn_args.model_name, fn_args.depth)
    /\ fn_log' = Append(fn_log, "load")
    /\ fn_pc' = "returned"
    /\ UNCHANGED << rndVars, strVars, conVars, fn_args, surfaceVars, jobVars, cmdVars, camVars >>

ResolverNext == ResolverLoad

SpecResolver == ResolverInit /\ [][ResolverNext]_vars

\* the file a model's "parent" leads to, if it is present and not empty
HasParentFile(model_files, n) ==
    /\ "parent" \in model_files[n].keys
    /\ _normalize_model_name(model_files[n].parent) \in DOMAIN model_files
    /\ model_files[_normalize_model_name(model_files[n].parent)].keys # {}

\* the names met by following "parent" from n for at most d steps, child first
RECURSIVE ChainFrom(_, _, _)
ChainFrom(model_files, n, d) ==
    IF d = 0 \/ ~HasParentFile(model_files, n) THEN << n >>
    ELSE << n >> \o ChainFrom(model_files, _normalize_model_name(model_files[n].parent), d - 1)

\* following "parent" from the model loaded meets some model twice
Cyclic ==
    LET chain == ChainFrom(fn_args.model_files, "a", Cardinality(FileNames))
    IN  \E i, j \in 1..Len(chain) : i < j /\ chain[i] = chain[j]

\* the models the call goes through
Chain == ChainFrom(fn_args.model_files, "a", fn_args.depth)

Definers(key) == { i \in 1..Len(Chain) : key \in fn_args.model_files[Chain[i]].keys }

Nearest(S) == CHOOSE i \in S : \A j \in S : i <= j

\* the texture variables of the chain, each with the value of the nearest
\* model that defines it
ExpectedTextures ==
    LET defs(k) == { i \in Definers("textures") :
                       k \in DOMAIN fn_args.model_files[Chain[i]].textures }
    IN  [ k \in UNION { DOMAIN fn_args.model_files[Chain[i]].textures :
                          i \in Definers("textures") } |->
            fn_args.model_files[Chain[Nearest(defs(k))]].textures[k] ]

\* the elements of the nearest model that defines them
ExpectedElements ==
    IF Definers("elements") = {} THEN << >>
    ELSE fn_args.model_files[Chain[Nearest(Definers("elements"))]].elements

SameMap(f, g) == DOMAIN f = DOMAIN g /\ \A k \in DOMAIN f : f[k] = g[k]

\* the definition returned is the one the chain stands for
ReturnsChainMerge ==
    /\ fn_ret.outcome = "returned"
    /\ fn_ret.cached
    /\ SameMap(fn_ret.value.textures, ExpectedTextures)
    /\ fn_ret.value.elements = ExpectedElements
    /\ ("elements" \in fn_ret.value.keys) = (Definers("elements") # {})
    /\ ("textures" \in fn_ret.value.keys) = (Definers("textures") # {})

LoadedFileUsable ==
    /\ fn_pc = "returned"
    /\ fn_args.model_files["a"].keys # {}

\* C25: for every finite acyclic parent chain load returns the textures of
\* the whole chain merged from the root down to the model, a nearer
\* descendant's value winning on a shared key, and the elements of the
\* nearest model of the chain that defines them.
C25_AcyclicChainMerged ==
    (LoadedFileUsable /\ ~Cyclic) => ReturnsChainMerge

\* a chain of three models: x is defined by the model and by the root, y by
\* the middle model only, elements by the root only
C25_Witness ==
    /\ LoadedFileUsable
    /\ ~Cyclic
    /\ Chain = << "a", "b", "c" >>
    /\ fn_args.model_files["a"].textures = [ k \in {"x"} |-> << "a", k >> ]
    /\ fn_args.model_files["b"].textures = [ k \in {"y"} |-> << "b", k >> ]
    /\ fn_args.model_files["c"].textures = [ k \in {"x"} |-> << "c", k >> ]
    /\ Definers("elements") = {3}
    /\ fn_ret.value.textures["x"] = << "a", "x" >>
    /\ fn_ret.value.textures["y"] = << "b", "y" >>
    /\ fn_ret.value.elements = << "c" >>

\* C26 as stated: with a cycle in the parent chain load neither returns nor
\* caches.
C26_CycleNeverReturns ==
    (LoadedFileUsable /\ Cyclic) =>
        (fn_ret.outcome # "returned" /\ ~fn_ret.cached)

\* C26 amended: with a cycle in the parent chain the resolution goes round
\* the cycle until the stack is exhausted, then load returns and caches the
\* merge of the models gone through; its "parent" is that of the last one.
C26_CycleEndsAtStackLimit ==
    (LoadedFileUsable /\ Cyclic) =>
        /\ Len(Chain) = fn_args.depth + 1
        /\ ReturnsChainMerge
        /\ fn_ret.value.parent = fn_args.model_files[Chain[Len(Chain)]].parent

\* a cycle of two models: the definition returned holds the textures of both
C26_Witness ==
    /\ LoadedFileUsable
    /\ Cyclic
    /\ Len(Chain) = fn_args.depth + 1
    /\ Chain[2] = "b"
    /\ Chain[3] = "a"
    /\ fn_ret.cached
    /\ DOMAIN fn_ret.value.textures = {"x", "y"}
    /\ fn_ret.value.textures["x"] = << "a", "x" >>
    /\ fn_ret.value.textures["y"] = << "b", "y" >>
    /\ fn_ret.value.parent = fn_args.model_files[Chain[Len(Chain)]].parent

\* ------------------------------------------------------------------------
\* The models selected for a wire (surface_builder.py lines 95-129, 657-670)
\* ------------------------------------------------------------------------

\* the value of a connection: absent from the properties, or one of the
\* three states of a wire
ConnectionValues == { None, "none", "side", "up" }

WireProperties ==
    { [ NoProps EXCEPT !["north"] = n, !["east"] = e, !["south"] = so, !["west"] = w ] :
        n \in ConnectionValues, e \in ConnectionValues,
        so \in ConnectionValues, w \in ConnectionValues }

WireInit ==
    /\ fn_args \in [ properties : WireProperties ]
    /\ fn_ret = << >>
    /\ fn_log = << >>
    /\ fn_pc = "called"
    /\ SurfaceIdle
    /\ JobIdle
    /\ CmdIdle
    /\ CamIdle
    /\ ConIdle
    /\ RndIdle
    /\ StrIdle

WireSelect ==
    /\ fn_pc = "called"
    /\ fn_ret' = _get_redstone_models(fn_args.properties)
    /\ fn_log' = Append(fn_log, "_get_redstone_models")
    /\ fn_pc' = "returned"
    /\ UNCHANGED << rndVars, strVars, conVars, fn_args, surfaceVars, jobVars, cmdVars, camVars >>

WireNext == WireSelect

SpecWire == WireInit /\ [][WireNext]_vars

\* a lateral connection is active when its value is not "none"; a direction
\* absent from the properties counts as "none"
Active(d) == PropGet(fn_args.properties, d, "none") # "none"

Elevated(d) == PropGet(fn_args.properties, d, "none") = "up"

\* the angle of the table about the vertical axis
TableAngle(d) ==
    CASE d = "north" -> 0
      [] d = "east"  -> 90
      [] d = "south" -> 180
      [] d = "west"  -> 270

\* the number of instances selected with this model file and this rotation
Selected(name, rotation) ==
    Cardinality({ i \in DOMAIN fn_ret :
                    /\ fn_ret[i].model = ModelResolver_load(ModelPath(name))
                    /\ fn_ret[i].rotation = rotation })

Lateral == { "north", "east", "south", "west" }

\* C27: without an active lateral connection exactly one instance is
\* selected, the dot model with rotation 0; otherwise one side instance per
\* active direction, turned by the table angle of the direction, one up
\* instance with the same rotation per direction whose value is "up", and no
\* dot instance.
C27_WireSelection ==
    fn_pc = "returned" =>
        IF \A d \in Lateral : ~Active(d)
        THEN fn_ret = << Instance(ModelResolver_load(ModelPath("redstone_dust_dot")),
                                  <<0, 0, 0>>) >>
        ELSE /\ \A d \in Lateral :
                  /\ Selected("redstone_dust_side0", <<0, TableAngle(d), 0>>)
                       = IF Active(d) THEN 1 ELSE 0
                  /\ Selected("redstone_dust_up", <<0, TableAngle(d), 0>>)
                       = IF Elevated(d) THEN 1 ELSE 0
             /\ \A i \in DOMAIN fn_ret :
                  fn_ret[i].model # ModelResolver_load(ModelPath("redstone_dust_dot"))
             /\ Len(fn_ret) = Cardinality({ d \in Lateral : Active(d) })
                                + Cardinality({ d \in Lateral : Elevated(d) })

\* a wire going up to the east and level to the west: three instances
C27_Witness ==
    /\ fn_pc = "returned"
    /\ Elevated("east")
    /\ Active("west") /\ ~Elevated("west")
    /\ ~Active("north") /\ ~Active("south")
    /\ Len(fn_ret) = 3
    /\ fn_ret[1].rotation = <<0, 90, 0>>
    /\ fn_ret[2].rotation = <<0, 90, 0>>
    /\ fn_ret[3].rotation = <<0, 270, 0>>

\* ------------------------------------------------------------------------
\* The cull-face test of a rotated model instance
\* (surface_builder.py lines 217-238, 481-487, 626-647)
\* ------------------------------------------------------------------------

Hopper(facing) == Block("minecraft", "hopper", [NoProps EXCEPT !["facing"] = facing])

\* one hopper, facing any of the five ways it can, among up to two plain cubes
RotatedInit ==
    /\ \E p \in Positions :
         \E facing \in {"down", "north", "east", "south", "west"} :
           \E C \in { T \in SUBSET (Positions \ {p}) : Cardinality(T) <= MaxSpecial } :
              schematic = Region(C \cup {p},
                                 [ q \in C \cup {p} |->
                                     IF q = p THEN Hopper(facing)
                                     ELSE Block("minecraft", "andesite", NoProps) ])
    /\ blocks = EmptyBlocks
    /\ bounds = ZeroBounds
    /\ surfaces = << >>
    /\ spc = "loaded"
    /\ mesh = NoMesh
    /\ JobIdle
    /\ CmdIdle
    /\ CamIdle
    /\ FnIdle
    /\ ConIdle
    /\ RndIdle
    /\ StrIdle

SpecRotated == RotatedInit /\ [][SurfaceNext]_vars

\* the direction a face of the model points to after the instance rotation,
\* turned as _apply_rotation turns the vertices of its quad
RotatedDir(face_name, rotation) ==
    LET c == Unit \div 2
        d == FACE_DIRS[face_name]
        r == RotateVertex(<< c + c * d[1], c + c * d[2], c + c * d[3] >>, rotation)
    IN  << (r[1] - c) \div c, (r[2] - c) \div c, (r[3] - c) \div c >>

\* a voxel is present next to the block in the direction the face points to
\* in world space
RotatedCullSatisfied(r) ==
    /\ FaceOf(r).cullface \in DOMAIN FACE_DIRS
    /\ Add3(r[1], RotatedDir(FaceOf(r).cullface, InstancesAt(r[1])[r[2]].rotation))
         \in DOMAIN blocks

\* the quad of the face is in the surface list (one block has a model of its
\* own, and its model has one face of each name)
Emitted(r) ==
    \E i \in ModelQuads :
        /\ surfaces[i].face = FaceOf(r).name
        /\ surfaces[i].block_id = blocks[r[1]].id

\* C28: for a model instance with a rotation other than zero, a face with a
\* cull-face direction is skipped exactly when a voxel is present next to the
\* block in the direction the face points to after the rotation.
C28_CullTestFollowsRotation ==
    spc = "surfaces" =>
        \A r \in FaceRefs :
            (/\ InstancesAt(r[1])[r[2]].rotation # <<0, 0, 0>>
             /\ FaceOf(r).cullface # None)
            => (Emitted(r) = ~RotatedCullSatisfied(r))

\* ------------------------------------------------------------------------
\* The budget of estimate_scaled_size (gif_exporter.py lines 265-281)
\* ------------------------------------------------------------------------

\* C29: whenever estimate_scaled_size returns new dimensions for positive
\* width, height and frame count and a budget max_size >= 0, the estimate
\* taken again at those dimensions is within the budget:
\* w' * h' * 0.25 * frame_count <= max_size (both sides taken four times).
C29_ScaledSizeWithinBudget ==
    (/\ fn_pc = "returned"
     /\ fn_args.width > 0 /\ fn_args.height > 0 /\ fn_args.frame_count > 0
     /\ fn_args.max_size >= 0
     /\ fn_ret # NoResize)
    => fn_ret[1] * fn_ret[2] * fn_args.frame_count <= 4 * fn_args.max_size

\* ------------------------------------------------------------------------
\* The native window size under a cap typed by the user
\* (render3d_command.py lines 187-201, render_3d_manager.py lines 338-364)
\* ------------------------------------------------------------------------

\* the text "native@WxH"
NativeCapText(w, h) == << Word("native"), Sep("@"), Num(w), Sep("x"), Num(h) >>

WindowInputs ==
    [ cap_w        : {63, 64, 700, 1024, 32768, 32769},
      cap_h        : {64, 500, 700, 32768},
      dimensions   : [ width : {1, 30, 3000}, height : {1, 30, 3000}, length : {1, 30, 3000} ],
      texture_size : {TextureSize, 128} ]

WindowInit ==
    /\ fn_args \in WindowInputs
    /\ fn_ret = << >>
    /\ fn_log = << >>
    /\ fn_pc = "called"
    /\ SurfaceIdle
    /\ JobIdle
    /\ CmdIdle
    /\ CamIdle
    /\ ConIdle
    /\ RndIdle
    /\ StrIdle

\* the command parses the resolution; a cap it accepts reaches the manager,
\* which computes the window size from the model's dimensions
WindowApply ==
    /\ fn_pc = "called"
    /\ LET parsed == _parse_resolution(NativeCapText(fn_args.cap_w, fn_args.cap_h))
       IN  IF ~parsed.ok
           THEN /\ fn_ret' = << >>
                /\ fn_pc' = "rejected"
           ELSE /\ fn_ret' = _calculate_native_window_size(fn_args.dimensions,
                                                           fn_args.texture_size,
                                                           parsed.native_max_size)
                /\ fn_pc' = "returned"
    /\ fn_log' = Append(fn_log, "_calculate_native_window_size")
    /\ UNCHANGED << rndVars, strVars, conVars, fn_args, surfaceVars, jobVars, cmdVars, camVars >>

WindowNext == WindowApply

SpecWindow == WindowInit /\ [][WindowNext]_vars

\* C30: for every cap the command accepts, every model size and every
\* texture size, the window size computed in native-texture mode exceeds the
\* cap in neither dimension.
C30_WindowWithinCap ==
    fn_pc = "returned" =>
        /\ fn_ret[1] <= fn_args.cap_w
        /\ fn_ret[2] <= fn_args.cap_h

=============================================================================
